---- MODULE Spec2Model ----
(***************************************************************************)
(* A model of apifox-ts-gen: the schema renderer of src/core/generator.ts  *)
(* (generateTypeProps, handleRecursiveType) as an explicit stack machine,  *)
(* the identifier synthesis of src/utils/formatters.ts, and the operation  *)
(* compiler / module emitter of generator.ts and serviceGenerator.ts, and  *)
(* batchTranslate of cli.ts with translateText of core/translator.ts, and  *)
(* the traversals collectReferencedTypes and resolveSchema step by step.   *)
(*                                                                         *)
(* Rendered text is kept as a tree whose constructors each stand for one   *)
(* fixed text template of the source:                                      *)
(*   <<"name", n>>        n                                                *)
(*   <<"arr", t>>         t[]                                              *)
(*   <<"braces", r>>      {\n r \n}                                        *)
(*   <<"emptyObj">>       {}                                               *)
(*   <<"record">>         Record<string, any>                              *)
(*   <<"props", fs>>      the fields fs joined by "\n"                     *)
(*   <<"anyMaxDepth">>    any // Max depth reached                         *)
(*   <<"anyCircular", n>> any // Circular reference to n                   *)
(*   <<"anyError">>       any // Error processing properties               *)
(* A field [name, opt, type] stands for "/** */ name<?>: type;".           *)
(* Indentation and description text are not modelled.                      *)
(***************************************************************************)
EXTENDS Integers, Sequences, FiniteSets, TLC

VARIABLES
    schemas,      \* spec.components.schemas: schema name -> schema
    root,         \* the top-level render request of the renderer runs
    phase,        \* position of the run
    stack,        \* activations of generateTypeProps / handleRecursiveType
    sets,         \* the ProcessedRefs objects alive, by identity
    returning,    \* the top activation has computed its return value
    retv,         \* that return value
    result,       \* value of the finished top-level render
    doc,          \* spec.paths, flattened: sequence of [path, method, op]
    cfg,          \* command line, prompt answers and apifox.config.js
    modules,      \* the modules selectModules returns
    clock,        \* the wall clock, in seconds
    runsLeft,     \* further runs of the tool that will follow this one
    typePrefix,   \* the prefix selectModules returns to run()
    mi,           \* index of the module being generated
    oi,           \* index of the operation being compiled
    updateTime,   \* `updateTime` of the operation being compiled
    todo,         \* schemas collectReferencedTypes has still to visit
    processedTypes,   \* generateTypes' processedTypes
    typeDefinitions,  \* generateTypes' typeDefinitions, as declarations
    typesFiles,   \* type-declaration files on disk, by module file name
    svcFiles,     \* client files on disk, by module file name
    helperFile,   \* helpers declared by generatedRequestHelpers.ts
    prevFiles,    \* the files as the previous run left them
    events,       \* fetches and writes of the run, in order
    batchAt,      \* batchTranslate: index of the first module of the batch
    calls,        \* batchTranslate: the callback of each module
    label,        \* formatModuleName: the name it is called with
    moduleName    \* formatModuleName: the name it returns

render == <<stack, sets, returning, retv>>

pipe == <<doc, cfg, modules, clock, runsLeft, typePrefix, mi, oi, updateTime,
          todo, processedTypes, typeDefinitions, typesFiles, svcFiles,
          helperFile, prevFiles, events, batchAt, calls, label, moduleName>>

vars == <<schemas, root, phase, result, render, pipe>>

(***************************************************************************)
(* Schemas: tagged tuples, the tag giving what the source probes by field. *)
(***************************************************************************)
Ref(n) == <<"ref", n>>
Arr(items) == <<"array", items>>
ArrNoItems == <<"array_noitems">>
Obj(props, req) == <<"object", props, req>>
ObjNoProps == <<"object_noprops">>
Prim(t) == <<"prim", t>>
NoType == <<"notype">>

IsRef(s) == s[1] = "ref"
IsObjWithProps(s) == s[1] = "object"

\* schema.type as the source reads it ("" stands for undefined)
TypeOf(s) ==
    CASE s[1] = "array" -> "array"
      [] s[1] = "array_noitems" -> "array"
      [] s[1] = "object" -> "object"
      [] s[1] = "object_noprops" -> "object"
      [] s[1] = "prim" -> s[2]
      [] OTHER -> ""

\* `t === "integer" ? "number" : t || "any"` (generator.ts 202, 290)
TsTypeOrAny(s) ==
    IF TypeOf(s) = "integer" THEN "number"
    ELSE IF TypeOf(s) = "" THEN "any" ELSE TypeOf(s)

\* `t === "integer" ? "number" : t` (generator.ts 268): undefined stays
TsTypeRaw(s) ==
    IF TypeOf(s) = "integer" THEN "number"
    ELSE IF TypeOf(s) = "" THEN "undefined" ELSE TypeOf(s)

MAX_DEPTH == 10

PrimitiveTypes == {"string", "boolean", "number", "integer"}

(***************************************************************************)
(* ProcessedRefs (generator.ts 83): a Set<string>, passed by reference.    *)
(***************************************************************************)
\* a visited set that reports no name as seen
RefsHasNone(set, n) == FALSE

RefsHas(set, n) == n \in set

\* a visited set that starts with the names generateTypes has collected
SetOfCollectedNames == processedTypes

\* `new Set()`: the default of generator.ts 113 and the argument of 676
NewSet == {}

\* a visited set that forgets what it is told
RefsAddForgets(set, n) == set

RefsAdd(set, n) == set \cup {n}

\* the key `interface:${itemType}` of generator.ts 171
InterfaceKey(n) == "interface:" \o n

\* `schemas && schemas[refType]`
HasSchema(n) == n \in DOMAIN schemas

NoRet == <<"none">>

Cont(kind, pname, opt, arr) ==
    [kind |-> kind, pname |-> pname, opt |-> opt, arr |-> arr]

\* One activation. name is the registry schema whose body it renders ("" for
\* an inline schema); idx/acc are the position and result of the property map;
\* k says what the caller does with the returned text.
Frame(fn, schema, name, pr, depth, k) ==
    [fn |-> fn, schema |-> schema, name |-> name, pr |-> pr, depth |-> depth,
     idx |-> 1, acc |-> <<>>, typeDefs |-> <<>>, k |-> k]

Field(name, opt, type) == [name |-> name, opt |-> opt, type |-> type]

\* `schema.required?.includes(name) ? "" : "?"` (generator.ts 211)
OptionalMark(schema, name) == name \notin schema[3]

Top == stack[Len(stack)]

Rest == SubSeq(stack, 1, Len(stack) - 1)

Running == stack # <<>> /\ ~returning

GReady == Running /\ Top.fn = "G" /\ Top.depth <= MAX_DEPTH

ReturnValue(v) ==
    /\ returning' = TRUE
    /\ retv' = v
    /\ UNCHANGED <<stack, sets>>

Call(f, newSets) ==
    /\ stack' = Append(stack, f)
    /\ sets' = newSets
    /\ UNCHANGED <<returning, retv>>

EmitField(f, newSets) ==
    /\ stack' = [stack EXCEPT ![Len(stack)] =
                    [@ EXCEPT !.acc = Append(@, f), !.idx = @ + 1]]
    /\ sets' = newSets
    /\ UNCHANGED <<returning, retv>>

AddTo(pr, n) == [sets EXCEPT ![pr] = RefsAdd(@, n)]

\* handleRecursiveType (generator.ts 85-107); the nested generateTypeProps is
\* called with four arguments, so its depth is the default 0.
HrtEnter ==
    /\ Running
    /\ Top.fn = "H"
    /\ IF RefsHas(sets[Top.pr], Top.name)
         THEN ReturnValue(<<"name", Top.name>>)
         ELSE Call(Frame("G", Top.schema, Top.name, Top.pr, 0,
                         Cont("hrt", "", FALSE, FALSE)),
                   AddTo(Top.pr, Top.name))
    /\ UNCHANGED <<schemas, root, phase, result, pipe>>

\* generator.ts 118-125
GtpDepthExceeded ==
    /\ Running
    /\ Top.fn = "G"
    /\ Top.depth > MAX_DEPTH
    /\ ReturnValue(<<"anyMaxDepth">>)
    /\ UNCHANGED <<schemas, root, phase, result, pipe>>

\* generator.ts 130-150
GtpRef ==
    /\ GReady
    /\ IsRef(Top.schema)
    /\ LET refType == Top.schema[2] IN
         IF RefsHas(sets[Top.pr], refType)
           THEN ReturnValue(<<"anyCircular", refType>>)
           ELSE IF HasSchema(refType)
             THEN Call(Frame("G", schemas[refType], refType, Top.pr,
                             Top.depth + 1, Cont("pass", "", FALSE, FALSE)),
                       AddTo(Top.pr, refType))
             ELSE ReturnValue(<<"name", refType>>)
    /\ UNCHANGED <<schemas, root, phase, result, pipe>>

\* generator.ts 153-204
GtpArray ==
    /\ GReady
    /\ TypeOf(Top.schema) = "array"
    /\ IF Top.schema = ArrNoItems
         THEN ReturnValue(<<"arr", <<"name", "any">>>>)
         ELSE LET items == Top.schema[2] IN
           IF IsRef(items)
             THEN LET itemType == items[2] IN
               IF HasSchema(itemType)
                 THEN IF RefsHas(sets[Top.pr], itemType)
                   THEN ReturnValue(<<"arr", <<"name", itemType>>>>)
                   ELSE IF ~RefsHas(sets[Top.pr], InterfaceKey(itemType))
                     \* the copy `new Set([...processedRefs])` is taken after the add
                     THEN LET marked == AddTo(Top.pr, InterfaceKey(itemType)) IN
                          Call(Frame("H", schemas[itemType], itemType,
                                     Len(sets) + 1, 0,
                                     Cont("iface", "", FALSE, FALSE)),
                               Append(marked, marked[Top.pr]))
                     ELSE ReturnValue(<<"arr", <<"name", itemType>>>>)
                 ELSE ReturnValue(<<"arr", <<"emptyObj">>>>)
             ELSE IF TypeOf(items) = "object"
               THEN Call(Frame("G", items, "", Top.pr, Top.depth + 1,
                               Cont("arrItems", "", FALSE, FALSE)),
                         sets)
               ELSE ReturnValue(<<"arr", <<"name", TsTypeOrAny(items)>>>>)
    /\ UNCHANGED <<schemas, root, phase, result, pipe>>

\* One callback of the property map, generator.ts 210-296. A property of type
\* array without items makes `prop.items.$ref` throw; the catch of 301-304
\* replaces the whole object by the error text.
GtpObjectProp ==
    /\ GReady
    /\ IsObjWithProps(Top.schema)
    /\ Top.idx <= Len(Top.schema[2])
    /\ LET name == Top.schema[2][Top.idx][1]
           prop == Top.schema[2][Top.idx][2]
           opt == OptionalMark(Top.schema, name)
           pr == Top.pr
           has(n) == RefsHas(sets[pr], n)
           child(s, n, arr) == Frame("G", s, n, pr, Top.depth + 1,
                                     Cont("field", name, opt, arr))
       IN
         IF IsRef(prop) THEN
           LET refType == prop[2] IN
             IF HasSchema(refType)
               THEN IF has(refType)
                 THEN EmitField(Field(name, opt, <<"name", refType>>), sets)
                 ELSE Call(child(schemas[refType], refType, FALSE),
                           AddTo(pr, refType))
               ELSE EmitField(Field(name, opt, <<"name", refType>>), sets)
         ELSE IF TypeOf(prop) = "array" THEN
           IF prop = ArrNoItems
             THEN ReturnValue(<<"anyError">>)
             ELSE LET items == prop[2] IN
               IF IsRef(items) THEN
                 LET itemType == items[2] IN
                   IF HasSchema(itemType)
                     THEN IF has(itemType)
                       THEN EmitField(Field(name, opt,
                                            <<"arr", <<"name", itemType>>>>), sets)
                       ELSE Call(child(schemas[itemType], itemType, TRUE),
                                 AddTo(pr, itemType))
                     ELSE EmitField(Field(name, opt,
                                          <<"arr", <<"name", itemType>>>>), sets)
               ELSE IF TypeOf(items) = "object" THEN
                 IF has("object")
                   THEN EmitField(Field(name, opt,
                                        <<"arr", <<"name", "object">>>>), sets)
                   ELSE Call(child(items, "", TRUE), AddTo(pr, "object"))
               ELSE EmitField(Field(name, opt,
                                    <<"arr", <<"name", TsTypeRaw(items)>>>>),
                              AddTo(pr, TsTypeRaw(items)))
         ELSE IF TypeOf(prop) = "object" THEN
           IF prop = ObjNoProps
             THEN EmitField(Field(name, opt, <<"record">>), sets)
             ELSE Call(child(prop, "", FALSE), sets)
         ELSE EmitField(Field(name, opt, <<"name", TsTypeOrAny(prop)>>),
                        AddTo(pr, TsTypeOrAny(prop)))
    /\ UNCHANGED <<schemas, root, phase, result, pipe>>

\* generator.ts 297-300
GtpObjectDone ==
    /\ GReady
    /\ IsObjWithProps(Top.schema)
    /\ Top.idx > Len(Top.schema[2])
    /\ ReturnValue(<<"props", Top.acc>>)
    /\ UNCHANGED <<schemas, root, phase, result, pipe>>

\* generator.ts 308-317
GtpPrimitive ==
    /\ GReady
    /\ Top.schema[1] = "prim"
    /\ ReturnValue(<<"name", IF TypeOf(Top.schema) \in PrimitiveTypes
                               THEN TsTypeOrAny(Top.schema) ELSE "any">>)
    /\ UNCHANGED <<schemas, root, phase, result, pipe>>

\* generator.ts 319: an object without properties, or no type at all
GtpAny ==
    /\ GReady
    /\ Top.schema[1] \in {"object_noprops", "notype"}
    /\ ReturnValue(<<"name", "any">>)
    /\ UNCHANGED <<schemas, root, phase, result, pipe>>

\* The return of the top activation into its caller.
Return ==
    /\ returning
    /\ Len(stack) > 1
    /\ LET k == Top.k
           callee == Top
           parent == Rest[Len(Rest)]
       IN
         \/ /\ k.kind = "pass"                 \* generator.ts 141: return of the call
            /\ stack' = Rest
            /\ UNCHANGED <<returning, retv>>
         \/ /\ k.kind = "hrt"                  \* generator.ts 101-106
            /\ stack' = Rest
            /\ retv' = <<"braces", retv>>
            /\ UNCHANGED returning
         \/ /\ k.kind = "iface"                \* generator.ts 173-182
            /\ stack' = [Rest EXCEPT ![Len(Rest)] =
                            [@ EXCEPT !.typeDefs =
                               <<<<"interface", callee.name, retv>>>> \o @]]
            /\ retv' = <<"arr", <<"name", callee.name>>>>
            /\ UNCHANGED returning
         \/ /\ k.kind = "arrItems"             \* generator.ts 191-197
            /\ stack' = Rest
            /\ retv' = <<"arr", <<"braces", retv>>>>
            /\ UNCHANGED returning
         \/ /\ k.kind = "field"                \* generator.ts 225, 244, 259, 281
            /\ stack' = [Rest EXCEPT ![Len(Rest)] =
                            [@ EXCEPT !.acc = Append(@,
                                 Field(k.pname, k.opt,
                                       IF k.arr THEN <<"arr", <<"braces", retv>>>>
                                                ELSE <<"braces", retv>>)),
                                      !.idx = @ + 1]]
            /\ returning' = FALSE
            /\ retv' = NoRet
    /\ UNCHANGED <<schemas, root, phase, sets, result, pipe>>

(***************************************************************************)
(* Identifier synthesis. Text that the source takes apart is a sequence of  *)
(* one-character strings; Str turns it into a string.                       *)
(***************************************************************************)
LowerChars ==
    << "a", "b", "c", "d", "e", "f", "g", "h", "i", "j", "k", "l", "m",
       "n", "o", "p", "q", "r", "s", "t", "u", "v", "w", "x", "y", "z" >>

UpperChars ==
    << "A", "B", "C", "D", "E", "F", "G", "H", "I", "J", "K", "L", "M",
       "N", "O", "P", "Q", "R", "S", "T", "U", "V", "W", "X", "Y", "Z" >>

DigitChars == << "0", "1", "2", "3", "4", "5", "6", "7", "8", "9" >>

IsLower(c) == \E i \in 1..26 : LowerChars[i] = c

IsUpper(c) == \E i \in 1..26 : UpperChars[i] = c

IsDigit(c) == \E i \in 1..10 : DigitChars[i] = c

IsLetter(c) == IsLower(c) \/ IsUpper(c)

ToUpperChar(c) ==
    IF IsLower(c) THEN UpperChars[CHOOSE i \in 1..26 : LowerChars[i] = c] ELSE c

ToLowerChar(c) ==
    IF IsUpper(c) THEN LowerChars[CHOOSE i \in 1..26 : UpperChars[i] = c] ELSE c

ToLowerCase(w) == [i \in 1..Len(w) |-> ToLowerChar(w[i])]

\* lodash upperFirst, and `s.charAt(0).toUpperCase() + s.slice(1)`
UpperFirst(w) == [i \in 1..Len(w) |-> IF i = 1 THEN ToUpperChar(w[i]) ELSE w[i]]

\* `s.charAt(0).toLowerCase() + s.slice(1)`
LowerFirst(w) == [i \in 1..Len(w) |-> IF i = 1 THEN ToLowerChar(w[i]) ELSE w[i]]

\* `w.charAt(0).toUpperCase() + w.slice(1).toLowerCase()`, lodash capitalize
Capitalize(w) == UpperFirst(ToLowerCase(w))

RECURSIVE Str(_)
Str(w) == IF w = <<>> THEN "" ELSE w[1] \o Str(Tail(w))

RECURSIVE Flatten(_)
Flatten(ws) == IF ws = <<>> THEN <<>> ELSE ws[1] \o Flatten(Tail(ws))

\* `s.split(sep)` for a set of one-character separators
RECURSIVE SplitOn(_, _, _)
SplitOn(w, seps, cur) ==
    IF w = <<>> THEN << cur >>
    ELSE IF w[1] \in seps THEN << cur >> \o SplitOn(Tail(w), seps, <<>>)
    ELSE SplitOn(Tail(w), seps, Append(cur, w[1]))

\* `.filter(Boolean)` on strings
NonEmpty(ws) == SelectSeq(ws, LAMBDA x : x # <<>>)

\* lodash words() on ASCII letters, digits and separators: a word ends at a
\* separator, between a lower-case and an upper-case letter, between a letter
\* and a digit, and before the last capital of a run of capitals that a
\* lower-case letter follows.
WordStartsAt(w, i) ==
    /\ IsLetter(w[i]) \/ IsDigit(w[i])
    /\ \/ i = 1
       \/ ~(IsLetter(w[i - 1]) \/ IsDigit(w[i - 1]))
       \/ IsLower(w[i - 1]) /\ IsUpper(w[i])
       \/ IsDigit(w[i - 1]) /\ IsLetter(w[i])
       \/ IsLetter(w[i - 1]) /\ IsDigit(w[i])
       \/ IsUpper(w[i - 1]) /\ IsUpper(w[i]) /\ i < Len(w) /\ IsLower(w[i + 1])

RECURSIVE WordsFrom(_, _, _)
WordsFrom(w, i, cur) ==
    IF i > Len(w) THEN NonEmpty(<< cur >>)
    ELSE IF ~(IsLetter(w[i]) \/ IsDigit(w[i]))
      THEN NonEmpty(<< cur >>) \o WordsFrom(w, i + 1, <<>>)
    ELSE IF WordStartsAt(w, i)
      THEN NonEmpty(<< cur >>) \o WordsFrom(w, i + 1, << w[i] >>)
    ELSE WordsFrom(w, i + 1, Append(cur, w[i]))

Words(w) == WordsFrom(w, 1, <<>>)

\* lodash camelCase: lower-case every word, capitalise all but the first
CamelCase(w) ==
    LET ws == Words(w) IN
      Flatten([i \in 1..Len(ws) |->
                 IF i = 1 THEN ToLowerCase(ws[i]) ELSE Capitalize(ws[i])])

\* formatters.ts 3-18
formatTypeName(path, method, prefix) ==
    LET segments == NonEmpty(SplitOn(path, {"/"}, <<>>))
        pathPart == Flatten([i \in 1..Len(segments) |->
                               UpperFirst(CamelCase(segments[i]))])
    IN prefix \o UpperFirst(method) \o pathPart

\* `path.replace(/\{([^}]+)\}/g, ...)` of serviceGenerator.ts 134-139
RECURSIVE ReplaceBraces(_)
ReplaceBraces(w) ==
    IF w = <<>> THEN <<>>
    ELSE LET closes == { j \in 2..Len(w) : w[j] = "}" } IN
      IF w[1] = "{" /\ closes # {} /\
         (CHOOSE j \in closes : \A m \in closes : j <= m) > 2
        THEN LET j == CHOOSE x \in closes : \A m \in closes : x <= m
                 param == SubSeq(w, 2, j - 1)
                 ws == SplitOn(param, {"-", "_"}, <<>>)
             IN Flatten([i \in 1..Len(ws) |-> Capitalize(ws[i])])
                \o ReplaceBraces(SubSeq(w, j + 1, Len(w)))
        ELSE << w[1] >> \o ReplaceBraces(Tail(w))

\* serviceGenerator.ts 133-167
formatMethodName(method, path) ==
    LET cleanPath == ReplaceBraces(path)
        parts == NonEmpty(SplitOn(cleanPath, {"/"}, <<>>))
        formatPart(part, index) ==
            IF \A i \in 1..Len(part) : part[i] \notin {"-", "_"}
              THEN IF index = 1 THEN LowerFirst(part) ELSE UpperFirst(part)
              ELSE LET ws == SplitOn(part, {"-", "_"}, <<>>) IN
                Flatten([i \in 1..Len(ws) |->
                           IF index = 1 /\ i = 1 THEN ToLowerCase(ws[i])
                           ELSE Capitalize(ws[i])])
        pathPart == Flatten([i \in 1..Len(parts) |-> formatPart(parts[i], i)])
    IN ToLowerCase(method) \o UpperFirst(pathPart)

(***************************************************************************)
(* Operations of the source document.                                      *)
(*   operation: [tags, parameters, hasBody, content, responses]            *)
(*   parameter: [name, in, required, schema]                               *)
(*   content:   sequence of [ctype, schema], in Object.entries order       *)
(*   responses: sequence of [status, hasContent, content], in              *)
(*              Object.entries order                                       *)
(* NoSchema stands for an absent schema.                                   *)
(***************************************************************************)
NoSchema == <<"none">>

Media(ctype, schema) == [ctype |-> ctype, schema |-> schema]

Response(status, hasContent, content) ==
    [status |-> status, hasContent |-> hasContent, content |-> content]

Param(name, in, required, schema) ==
    [name |-> name, in |-> in, required |-> required, schema |-> schema]

HasMedia(content, ctype) == \E i \in 1..Len(content) : content[i].ctype = ctype

\* content[ctype]?.schema
MediaSchema(content, ctype) ==
    IF HasMedia(content, ctype)
      THEN content[CHOOSE i \in 1..Len(content) : content[i].ctype = ctype].schema
      ELSE NoSchema

\* 2^31 - 1 stands for Number.MAX_SAFE_INTEGER (2^53 - 1), which exceeds the
\* integers of the checker; only its order against status codes is used
MAX_SAFE_INTEGER == 2147483647

RECURSIVE ParseDigits(_, _)
ParseDigits(w, acc) ==
    IF w = <<>> \/ ~IsDigit(w[1]) THEN acc
    ELSE ParseDigits(Tail(w),
                     acc * 10 + (CHOOSE d \in 0..9 : DigitChars[d + 1] = w[1]))

ToUpperCase(w) == [i \in 1..Len(w) |-> ToUpperChar(w[i])]

\* /^2\d{2}$/.test(status) || upper === "DEFAULT" || upper === "2XX"
\* (generator.ts 623-626)
IsSuccessCandidate(status) ==
    \/ Len(status) = 3 /\ status[1] = "2" /\ IsDigit(status[2]) /\ IsDigit(status[3])
    \/ ToUpperCase(status) = <<"D", "E", "F", "A", "U", "L", "T">>
    \/ ToUpperCase(status) = <<"2", "X", "X">>

\* the ranks of `default` and `2XX` exchanged
sortByStatusDefaultFirst(status) ==
    IF ToUpperCase(status) = <<"D", "E", "F", "A", "U", "L", "T">>
      THEN MAX_SAFE_INTEGER - 2
    ELSE IF ToUpperCase(status) = <<"2", "X", "X">>
      THEN MAX_SAFE_INTEGER - 1
    ELSE IF status = <<>> \/ ~IsDigit(status[1])
      THEN MAX_SAFE_INTEGER
    ELSE ParseDigits(status, 0)

\* generator.ts 628-633
sortByStatus(status) ==
    IF ToUpperCase(status) = <<"D", "E", "F", "A", "U", "L", "T">>
      THEN MAX_SAFE_INTEGER - 1
    ELSE IF ToUpperCase(status) = <<"2", "X", "X">>
      THEN MAX_SAFE_INTEGER - 2
    ELSE IF status = <<>> \/ ~IsDigit(status[1])
      THEN MAX_SAFE_INTEGER
    ELSE ParseDigits(status, 0)

\* Array.prototype.sort with the comparator of generator.ts 635 (stable)
RECURSIVE InsertByStatus(_, _)
InsertByStatus(sorted, r) ==
    IF sorted = <<>> THEN << r >>
    ELSE IF sortByStatus(r.status) < sortByStatus(sorted[1].status)
      THEN << r >> \o sorted
      ELSE << sorted[1] >> \o InsertByStatus(Tail(sorted), r)

RECURSIVE SortCandidates(_, _)
SortCandidates(rs, sorted) ==
    IF rs = <<>> THEN sorted
    ELSE SortCandidates(Tail(rs), InsertByStatus(sorted, rs[1]))

preferredContentTypes ==
    << "application/json", "application/*+json", "text/json", "*/*" >>

NoSelection == [found |-> FALSE, schema |-> NoSchema, status |-> <<>>, contentType |-> ""]

\* the schema one response offers (generator.ts 638-651)
SchemaOfResponse(r) ==
    IF ~r.hasContent THEN NoSelection
    ELSE LET pref == { i \in 1..4 : MediaSchema(r.content, preferredContentTypes[i]) # NoSchema }
             any == { i \in 1..Len(r.content) : r.content[i].schema # NoSchema }
         IN IF pref # {}
              THEN LET i == CHOOSE x \in pref : \A y \in pref : x <= y IN
                   [found |-> TRUE,
                    schema |-> MediaSchema(r.content, preferredContentTypes[i]),
                    status |-> r.status, contentType |-> preferredContentTypes[i]]
            ELSE IF any # {}
              THEN LET i == CHOOSE x \in any : \A y \in any : x <= y IN
                   [found |-> TRUE, schema |-> r.content[i].schema,
                    status |-> r.status, contentType |-> r.content[i].ctype]
            ELSE NoSelection

RECURSIVE FirstWithSchema(_)
FirstWithSchema(rs) ==
    IF rs = <<>> THEN NoSelection
    ELSE IF SchemaOfResponse(rs[1]).found THEN SchemaOfResponse(rs[1])
    ELSE FirstWithSchema(Tail(rs))

\* generator.ts 619-655
getSuccessfulResponseSchema(operation) ==
    FirstWithSchema(
        SortCandidates(
            SelectSeq(operation.responses, LAMBDA r : IsSuccessCandidate(r.status)),
            <<>>))

\* generator.ts 322-348
shouldUseTypeInsteadOfInterface(schema) ==
    \/ TypeOf(schema) = "array"
    \/ TypeOf(schema) \in {"string", "number", "integer", "boolean"}
    \/ schema = ObjNoProps

\* `prop.type === "integer" ? "number" : prop.type || "string"` (376, 401, 797)
TsTypeOrString(s) ==
    IF TypeOf(s) = "integer" THEN "number"
    ELSE IF TypeOf(s) = "" THEN "string" ELSE TypeOf(s)

\* the properties of schema as a sequence of <<name, schema>>, [] when absent
PropsOf(schema) == IF IsObjWithProps(schema) THEN schema[2] ELSE <<>>

\* generator.ts 365-382
UrlencodedFields(schema) ==
    [i \in 1..Len(PropsOf(schema)) |->
        LET name == schema[2][i][1]
            prop == schema[2][i][2]
        IN Field(name, OptionalMark(schema, name), <<"name", TsTypeOrString(prop)>>)]

\* generator.ts 385-410; a binary string is <<"prim", "string", "binary">>
FormDataFields(schema) ==
    [i \in 1..Len(PropsOf(schema)) |->
        LET name == schema[2][i][1]
            prop == schema[2][i][2]
        IN Field(name, OptionalMark(schema, name),
                 IF prop = <<"prim", "string", "binary">>
                   THEN <<"name", "File">>
                   ELSE <<"name", TsTypeOrString(prop)>>)]

\* generator.ts 470-520; <<"arrayOf", t>> stands for Array<t>
RECURSIVE processObjectProperties(_)
processObjectProperties(schema) ==
    [i \in 1..Len(PropsOf(schema)) |->
        LET name == schema[2][i][1]
            prop == schema[2][i][2]
            opt == OptionalMark(schema, name)
        IN IF TypeOf(prop) = "array" THEN
             IF prop = ArrNoItems
               THEN Field(name, opt, <<"arr", <<"name", "any">>>>)
             ELSE IF TypeOf(prop[2]) = "object"
               THEN Field(name, opt,
                          <<"arrayOf", <<"braces",
                              <<"props", processObjectProperties(prop[2])>>>>>>)
               ELSE Field(name, opt, <<"arr", <<"name", TsTypeOrAny(prop[2])>>>>)
           ELSE IF TypeOf(prop) = "object"
             THEN Field(name, opt,
                        <<"braces", <<"props", processObjectProperties(prop)>>>>)
           ELSE Field(name, opt, <<"name", TsTypeOrAny(prop)>>)]

\* generator.ts 350-534. kind "interface" and "type" are the two results;
\* "throw" is the TypeError of `schema.items.type` on an array without items
\* (435); "render" is a result that waits for generateTypeProps (445, 460).
generateRequestBodyType(operation) ==
    LET content == operation.content
        form == MediaSchema(content, "multipart/form-data")
        json == MediaSchema(content, "application/json")
        urlenc == MediaSchema(content, "application/x-www-form-urlencoded")
        formFields == FormDataFields(form)
        urlFields == UrlencodedFields(urlenc)
        res(kind, c) == [kind |-> kind, content |-> c]
    IN
      IF ~operation.hasBody THEN res("interface", <<>>)
      ELSE IF json = NoSchema THEN res("interface", urlFields \o formFields)
      ELSE IF IsRef(json) THEN res("type", <<"name", json[2]>>)
      ELSE IF /\ ~HasMedia(content, "multipart/form-data")
              /\ ~HasMedia(content, "application/x-www-form-urlencoded")
              /\ shouldUseTypeInsteadOfInterface(json)
        THEN IF TypeOf(json) = "array" THEN
               IF json = ArrNoItems THEN res("throw", <<>>)
               ELSE IF TypeOf(json[2]) = "string"
                 THEN res("type", <<"arr", <<"name", "string">>>>)
               ELSE IF TypeOf(json[2]) \in {"number", "integer"}
                 THEN res("type", <<"arr", <<"name", "number">>>>)
               ELSE IF TypeOf(json[2]) = "boolean"
                 THEN res("type", <<"arr", <<"name", "boolean">>>>)
               ELSE IF TypeOf(json[2]) = "object"
                 THEN res("render", <<"items", json[2]>>)
               ELSE IF IsRef(json[2])
                 THEN res("type", <<"arr", <<"name", json[2][2]>>>>)
               ELSE res("type", <<"arr", <<"name", "any">>>>)
             ELSE IF TypeOf(json) \in {"string", "number", "integer", "boolean"}
               THEN res("type", <<"name", TsTypeOrAny(json)>>)
             ELSE res("render", <<"whole", json>>)
      ELSE res("interface",
               urlFields \o formFields \o processObjectProperties(json))

\* /^(.+?)\[(\d+)\]$/ (generator.ts 759): the text before a final "[digits]"
ArrayParamBase(name) ==
    LET opens == { i \in 2..Len(name) : name[i] = "[" } IN
      IF Len(name) >= 4 /\ name[Len(name)] = "]" /\ opens # {}
        THEN LET i == CHOOSE x \in opens : \A y \in opens : y <= x IN
             IF i + 1 < Len(name) /\
                \A j \in (i + 1)..(Len(name) - 1) : IsDigit(name[j])
               THEN SubSeq(name, 1, i - 1)
               ELSE <<>>
        ELSE <<>>

\* generator.ts 747-800
ParameterProps(operation) ==
    [i \in 1..Len(operation.parameters) |->
        LET param == operation.parameters[i]
            opt == ~param.required
            base == ArrayParamBase(param.name)
        IN IF base # <<>>
             THEN Field(Str(base), opt, <<"arr", <<"name", "string">>>>)
           ELSE IF TypeOf(param.schema) = "array" THEN
             IF param.schema = ArrNoItems
               THEN Field(Str(param.name), opt, <<"arr", <<"name", "any">>>>)
             ELSE IF IsRef(param.schema[2])
               THEN Field(Str(param.name), opt,
                          <<"arr", <<"name", param.schema[2][2]>>>>)
               ELSE Field(Str(param.name), opt,
                          <<"arr", <<"name", TsTypeOrAny(param.schema[2])>>>>)
           ELSE Field(Str(param.name), opt,
                      <<"name", TsTypeOrString(param.schema)>>)]

(***************************************************************************)
(* Client functions (serviceGenerator.ts).                                 *)
(***************************************************************************)
\* serviceGenerator.ts 121-131
getContentType(operation) ==
    IF operation.hasBody /\ HasMedia(operation.content, "multipart/form-data")
      THEN "multipart/form-data"
    ELSE IF operation.hasBody /\
            HasMedia(operation.content, "application/x-www-form-urlencoded")
      THEN "application/x-www-form-urlencoded"
    ELSE "application/json"

\* serviceGenerator.ts 169-196; seen is the set of names already followed
RECURSIVE resolveSchema(_, _, _)
resolveSchema(schema, reg, seen) ==
    IF schema = NoSchema THEN schema
    ELSE IF IsRef(schema) THEN
      IF schema[2] \in seen \/ schema[2] \notin DOMAIN reg THEN schema
      ELSE resolveSchema(reg[schema[2]], reg, seen \cup {schema[2]})
    ELSE schema

\* serviceGenerator.ts 198-219
isObjectLikeSchema(schema) ==
    schema # NoSchema /\ (TypeOf(schema) = "object" \/ IsObjWithProps(schema))

\* String.prototype.replace(pattern, replacement) with a string pattern:
\* the first occurrence only
ReplaceFirst(w, pat, rep) ==
    LET hits == { i \in 1..(Len(w) - Len(pat) + 1) :
                    SubSeq(w, i, i + Len(pat) - 1) = pat }
    IN IF pat = <<>> \/ hits = {} THEN w
       ELSE LET i == CHOOSE x \in hits : \A y \in hits : x <= y IN
            SubSeq(w, 1, i - 1) \o rep \o SubSeq(w, i + Len(pat), Len(w))

PathParams(operation) == SelectSeq(operation.parameters, LAMBDA q : q.in = "path")

QueryParams(operation) == SelectSeq(operation.parameters, LAMBDA q : q.in = "query")

ParamNames(ps) == [i \in 1..Len(ps) |-> Str(ps[i].name)]

\* serviceGenerator.ts 251-257
RECURSIVE UrlTemplate(_, _)
UrlTemplate(url, ps) ==
    IF ps = <<>> THEN url
    ELSE UrlTemplate(
           ReplaceFirst(url, <<"{">> \o ps[1].name \o <<"}">>,
                        <<"$", "{", "p", "a", "r", "a", "m", "s", ".">>
                          \o ps[1].name \o <<"}">>),
           Tail(ps))

\* serviceGenerator.ts 229-357. The emitted function as a record: `send` is
\* the key of the request config ("params" or "data") and `arg` its value.
generateServiceMethod(path, method, operation, prefix, matchedTag, reg) ==
    LET methodUpper == ToUpperCase(method)
        pathParams == PathParams(operation)
        hasQueryParams == Len(QueryParams(operation)) > 0
        writes == Str(methodUpper) \in {"POST", "PUT", "PATCH"}
        contentType == IF writes /\ hasQueryParams
                         THEN "application/x-www-form-urlencoded"
                         ELSE getContentType(operation)
        omit == <<"omitParams", ParamNames(pathParams)>>
        jsonSchema == IF operation.hasBody
                        THEN MediaSchema(operation.content, "application/json")
                        ELSE NoSchema
        schemaForBody == resolveSchema(jsonSchema, reg, {})
        hasJsonRequestBody == schemaForBody # NoSchema
        reads == Str(methodUpper) \in {"GET", "DELETE"}
        arg == IF reads THEN
                 IF Len(pathParams) > 0 THEN omit ELSE <<"params">>
               ELSE IF contentType = "multipart/form-data"
                 THEN <<"buildFormData", <<"params">>>>
               ELSE IF contentType = "application/x-www-form-urlencoded"
                 THEN <<"buildUrlEncoded", <<"params">>>>
               ELSE IF hasJsonRequestBody /\ Len(pathParams) > 0 THEN
                 IF isObjectLikeSchema(schemaForBody)
                   THEN omit ELSE <<"params?.body">>
               ELSE IF Len(pathParams) > 0 THEN omit
               ELSE <<"params">>
    IN [ methodName |-> Str(formatMethodName(method, path)),
         interfaceBaseName |-> formatTypeName(path, method, prefix),
         requestType |-> Str(formatTypeName(path, method, prefix)) \o "Request",
         responseType |-> Str(formatTypeName(path, method, prefix)) \o "Response",
         httpMethod |-> Str(methodUpper),
         url |-> Str(UrlTemplate(path, pathParams)),
         contentType |-> contentType,
         send |-> IF reads THEN "params" ELSE "data",
         arg |-> arg,
         helpers |-> IF arg[1] \in {"omitParams", "buildFormData", "buildUrlEncoded"}
                       THEN {arg[1]} ELSE {},
         paramsOptional |-> \A i \in 1..Len(operation.parameters) :
                               ~operation.parameters[i].required,
         tag |-> matchedTag,
         path |-> Str(path) ]

(***************************************************************************)
(* The run (cli.ts run, generateTypes, generateServices).                  *)
(***************************************************************************)
\* seconds the clock may advance, and runs of the tool in a row
MaxClock == 1

MaxRuns == 2

Operation(tags, parameters, hasBody, content, responses) ==
    [tags |-> tags, parameters |-> parameters, hasBody |-> hasBody,
     content |-> content, responses |-> responses]

Entry(path, method, op) == [path |-> path, method |-> method, op |-> op]

Module(name, englishName) == [name |-> name, englishName |-> englishName]

\* operation.tags?.some((tag) => tags.includes(tag)) with tags = [module.name]
\* (generator.ts 698, 724; cli.ts 379)
Matched(op, module) == \E i \in 1..Len(op.tags) : op.tags[i] = module.name

\* operation.tags?.find((tag) => module.tags.includes(tag))
\* (serviceGenerator.ts 418-420)
MatchedTag(op, module) ==
    op.tags[CHOOSE i \in 1..Len(op.tags) :
               /\ op.tags[i] = module.name
               /\ \A j \in 1..(i - 1) : op.tags[j] # module.name]

\* the formatModuleName of earlier versions (formatters.ts 78-85)
formatModuleNameCamelOnly(name) == CamelCase(name)

\* formatters.ts 20-38
formatModuleName(name) ==
    LET camelized == CamelCase(name)
        letters == { i \in 1..Len(camelized) : IsLetter(camelized[i]) }
        sanitized == IF letters = {} THEN <<>>
                     ELSE SubSeq(camelized,
                                 CHOOSE i \in letters : \A j \in letters : i <= j,
                                 Len(camelized))
    IN IF sanitized # <<>> THEN sanitized
       ELSE IF camelized # <<>>
         THEN <<"m", "o", "d", "u", "l", "e">> \o UpperFirst(camelized)
       ELSE <<"m", "o", "d", "u", "l", "e">>

\* the file name of a module, without directory and extension
\* (generator.ts 602, serviceGenerator.ts 401-404)
ModuleFile(module) == Str(formatModuleName(module.englishName))

Put(f, key, value) ==
    [x \in DOMAIN f \cup {key} |-> IF x = key THEN value ELSE f[x]]

NoFiles == [x \in {} |-> <<>>]

NoDoc == [role |-> "none", tag |-> "", method |-> "", path |-> "", updateTime |-> 0]

\* a declaration of the type unit: `interface N {...}`, `export interface
\* N {...}` or `export type N = ...`, with the fields of its doc comment
Decl(kind, exported, name, body, docc) ==
    [kind |-> kind, exported |-> exported, name |-> name, body |-> body,
     docc |-> docc]

\* the doc comment of generator.ts 805-812 and its copies
DocComment(role, e, time) ==
    [role |-> role,
     tag |-> IF e.op.tags = <<>> THEN "Uncategorized" ELSE e.op.tags[1],
     method |-> Str(ToUpperCase(e.method)), path |-> Str(e.path),
     updateTime |-> time]

\* generator.ts 728-730
RequestName(e, prefix) ==
    Str(formatTypeName(e.path, e.method, prefix)) \o "Request"

ResponseName(e, prefix) ==
    Str(formatTypeName(e.path, e.method, prefix)) \o "Response"

\* generator.ts 740-882, given the result rb of generateRequestBodyType
RequestDecl(e, prefix, rb, time) ==
    LET name == RequestName(e, prefix)
        parameterProps == ParameterProps(e.op)
        docc == DocComment("request", e, time)
    IN IF Len(e.op.parameters) = 0 /\ ~e.op.hasBody
         THEN Decl("interface", TRUE, name, <<"noParameters">>, docc)
       ELSE IF rb.kind = "type" /\ parameterProps = <<>>
         THEN Decl("type", TRUE, name, rb.content, docc)
       ELSE IF rb.kind = "type"
         THEN Decl("interface", TRUE, name,
                   <<"props", parameterProps
                        \o << Field("requestBody", FALSE, rb.content) >> >>, docc)
       ELSE Decl("interface", TRUE, name,
                 <<"props", parameterProps \o rb.content>>, docc)

\* generator.ts 885-924
ResponseDecl(e, prefix, body, time) ==
    Decl("interface", TRUE, ResponseName(e, prefix), body,
         DocComment("response", e, time))

\* a collection loop that passes over the request bodies
CollectRootsOfResponseOnly(op) ==
    IF getSuccessfulResponseSchema(op).found
      THEN << getSuccessfulResponseSchema(op).schema >> ELSE <<>>

\* the schemas the collection loop hands to collectReferencedTypes for one
\* operation (generator.ts 704-716)
CollectRootsOf(op) ==
    (IF getSuccessfulResponseSchema(op).found
       THEN << getSuccessfulResponseSchema(op).schema >> ELSE <<>>)
    \o (IF op.hasBody
          THEN LET withSchema == SelectSeq(op.content, LAMBDA m : m.schema # NoSchema)
               IN [i \in 1..Len(withSchema) |-> withSchema[i].schema]
          ELSE <<>>)

RECURSIVE CollectRoots(_, _)
CollectRoots(entries, module) ==
    IF entries = <<>> THEN <<>>
    ELSE (IF Matched(entries[1].op, module)
            THEN CollectRootsOf(entries[1].op) ELSE <<>>)
         \o CollectRoots(Tail(entries), module)

Idle == stack = <<>>

\* cli.ts 346-353: selectModules fetches the document and settles the prefix
\* (209-213 without prompts, 283-300 with them; an empty answer takes the
\* prompt's default)
SelectModules ==
    /\ phase = "select"
    /\ typePrefix' = IF cfg.interactive
                       THEN IF cfg.answer = <<>> THEN cfg.typePrefix ELSE cfg.answer
                       ELSE IF cfg.prefix # <<>> THEN cfg.prefix ELSE cfg.typePrefix
    /\ events' = Append(events, <<"fetch", "selectModules">>)
    /\ phase' = IF modules = <<>> THEN "done" ELSE "types"
    /\ mi' = 1
    /\ UNCHANGED <<label, moduleName, batchAt, calls, schemas, root, result, render, doc, cfg, modules, clock,
                   runsLeft, oi, updateTime, todo, processedTypes,
                   typeDefinitions, typesFiles, svcFiles, helperFile, prevFiles>>

\* generator.ts 600-610 and the collection loop 696-718
TypesStart ==
    /\ phase = "types"
    /\ events' = Append(events, <<"fetch", "generateTypes">>)
    /\ typeDefinitions' = <<>>
    /\ processedTypes' = {}
    /\ todo' = CollectRoots(doc, modules[mi])
    /\ phase' = "collect"
    /\ UNCHANGED <<label, moduleName, batchAt, calls, schemas, root, result, render, doc, cfg, modules, clock,
                   runsLeft, typePrefix, mi, oi, updateTime, typesFiles,
                   svcFiles, helperFile, prevFiles>>

\* one call of collectReferencedTypes (generator.ts 658-693)
CollectStep ==
    /\ phase = "collect"
    /\ Idle
    /\ todo # <<>>
    /\ LET schema == todo[1] IN
         IF IsRef(schema) THEN
           IF schema[2] \notin processedTypes /\ HasSchema(schema[2])
             THEN /\ processedTypes' = processedTypes \cup {schema[2]}
                  /\ sets' = << NewSet >>
                  /\ stack' = << Frame("H", schemas[schema[2]], schema[2], 1, 0,
                                       Cont("collect", "", FALSE, FALSE)) >>
                  /\ todo' = << schemas[schema[2]] >> \o Tail(todo)
                  /\ UNCHANGED <<returning, retv>>
             ELSE /\ todo' = Tail(todo)
                  /\ UNCHANGED <<render, processedTypes>>
         ELSE IF TypeOf(schema) = "array" /\ schema # ArrNoItems
           THEN /\ todo' = << schema[2] >> \o Tail(todo)
                /\ UNCHANGED <<render, processedTypes>>
         ELSE IF IsObjWithProps(schema)
           THEN /\ todo' = [i \in 1..Len(schema[2]) |-> schema[2][i][2]] \o Tail(todo)
                /\ UNCHANGED <<render, processedTypes>>
         ELSE /\ todo' = Tail(todo)
              /\ UNCHANGED <<render, processedTypes>>
    /\ UNCHANGED <<label, moduleName, batchAt, calls, schemas, root, phase, result, doc, cfg, modules, clock,
                   runsLeft, typePrefix, mi, oi, updateTime, typeDefinitions,
                   typesFiles, svcFiles, helperFile, prevFiles, events>>

\* generator.ts 671-677: the rendered interface goes in front of the unit
CollectInterface ==
    /\ returning
    /\ Len(stack) = 1
    /\ Top.k.kind = "collect"
    /\ typeDefinitions' =
          << Decl("interface", FALSE, Top.name, retv, NoDoc) >> \o typeDefinitions
    /\ stack' = <<>>
    /\ sets' = <<>>
    /\ returning' = FALSE
    /\ retv' = NoRet
    /\ UNCHANGED <<label, moduleName, batchAt, calls, schemas, root, phase, result, doc, cfg, modules, clock,
                   runsLeft, typePrefix, mi, oi, updateTime, todo,
                   processedTypes, typesFiles, svcFiles, helperFile, prevFiles,
                   events>>

CollectDone ==
    /\ phase = "collect"
    /\ Idle
    /\ todo = <<>>
    /\ phase' = "request"
    /\ oi' = 1
    /\ UNCHANGED <<label, moduleName, batchAt, calls, schemas, root, result, render, doc, cfg, modules, clock,
                   runsLeft, typePrefix, mi, updateTime, todo, processedTypes,
                   typeDefinitions, typesFiles, svcFiles, helperFile, prevFiles,
                   events>>

\* an operation outside the module's tags (generator.ts 724-726)
TypesSkip ==
    /\ phase = "request"
    /\ Idle
    /\ oi <= Len(doc)
    /\ ~Matched(doc[oi].op, modules[mi])
    /\ oi' = oi + 1
    /\ UNCHANGED <<label, moduleName, batchAt, calls, schemas, root, phase, result, render, doc, cfg, modules,
                   clock, runsLeft, typePrefix, mi, updateTime, todo,
                   processedTypes, typeDefinitions, typesFiles, svcFiles,
                   helperFile, prevFiles, events>>

\* generator.ts 728-882: the Request declaration of a matched operation
TypesRequest ==
    /\ phase = "request"
    /\ Idle
    /\ oi <= Len(doc)
    /\ Matched(doc[oi].op, modules[mi])
    /\ LET e == doc[oi]
           rb == generateRequestBodyType(e.op)
       IN /\ rb.kind # "throw"
          /\ updateTime' = clock
          /\ IF rb.kind = "render"
               THEN /\ sets' = << NewSet >>
                    /\ stack' = << Frame("G", rb.content[2], "", 1, 0,
                                         Cont(rb.content[1], "", FALSE, FALSE)) >>
                    /\ UNCHANGED <<returning, retv, phase, typeDefinitions>>
               ELSE /\ typeDefinitions' =
                          Append(typeDefinitions,
                                 RequestDecl(e, typePrefix, rb, clock))
                    /\ phase' = "response"
                    /\ UNCHANGED render
    /\ UNCHANGED <<label, moduleName, batchAt, calls, schemas, root, result, doc, cfg, modules, clock, runsLeft,
                   typePrefix, mi, oi, todo, processedTypes, typesFiles,
                   svcFiles, helperFile, prevFiles, events>>

\* generator.ts 445-448 and 460: the alias text once generateTypeProps returned
TypesRequestRendered ==
    /\ returning
    /\ Len(stack) = 1
    /\ Top.k.kind \in {"items", "whole"}
    /\ LET content == IF Top.k.kind = "items"
                        THEN <<"arrayOf", <<"braces", retv>>>> ELSE retv
       IN typeDefinitions' =
             Append(typeDefinitions,
                    RequestDecl(doc[oi], typePrefix,
                                [kind |-> "type", content |-> content], updateTime))
    /\ phase' = "response"
    /\ stack' = <<>>
    /\ sets' = <<>>
    /\ returning' = FALSE
    /\ retv' = NoRet
    /\ UNCHANGED <<label, moduleName, batchAt, calls, schemas, root, result, doc, cfg, modules, clock, runsLeft,
                   typePrefix, mi, oi, updateTime, todo, processedTypes,
                   typesFiles, svcFiles, helperFile, prevFiles, events>>

\* generator.ts 435: `schema.items.type` of a JSON array body without items
\* throws; the catch of 939-942 rethrows and run() exits (cli.ts 408-417)
TypesThrow ==
    /\ phase = "request"
    /\ Idle
    /\ oi <= Len(doc)
    /\ Matched(doc[oi].op, modules[mi])
    /\ generateRequestBodyType(doc[oi].op).kind = "throw"
    /\ phase' = "typesFailed"
    /\ UNCHANGED <<label, moduleName, batchAt, calls, schemas, root, result, render, doc, cfg, modules, clock,
                   runsLeft, typePrefix, mi, oi, updateTime, todo,
                   processedTypes, typeDefinitions, typesFiles, svcFiles,
                   helperFile, prevFiles, events>>

\* generator.ts 885-924: the Response declaration
TypesResponse ==
    /\ phase = "response"
    /\ Idle
    /\ LET e == doc[oi]
           info == getSuccessfulResponseSchema(e.op)
       IN IF info.found
            THEN /\ sets' = << NewSet >>
                 /\ stack' = << Frame("G", info.schema, "", 1, 0,
                                      Cont("response", "", FALSE, FALSE)) >>
                 /\ UNCHANGED <<returning, retv, phase, oi, typeDefinitions>>
            ELSE /\ typeDefinitions' =
                       Append(typeDefinitions,
                              ResponseDecl(e, typePrefix, <<"noResponse">>, updateTime))
                 /\ phase' = "request"
                 /\ oi' = oi + 1
                 /\ UNCHANGED render
    /\ UNCHANGED <<label, moduleName, batchAt, calls, schemas, root, result, doc, cfg, modules, clock, runsLeft,
                   typePrefix, mi, updateTime, todo, processedTypes, typesFiles,
                   svcFiles, helperFile, prevFiles, events>>

TypesResponseRendered ==
    /\ returning
    /\ Len(stack) = 1
    /\ Top.k.kind = "response"
    /\ typeDefinitions' =
          Append(typeDefinitions,
                 ResponseDecl(doc[oi], typePrefix, retv, updateTime))
    /\ phase' = "request"
    /\ oi' = oi + 1
    /\ stack' = <<>>
    /\ sets' = <<>>
    /\ returning' = FALSE
    /\ retv' = NoRet
    /\ UNCHANGED <<label, moduleName, batchAt, calls, schemas, root, result, doc, cfg, modules, clock, runsLeft,
                   typePrefix, mi, updateTime, todo, processedTypes, typesFiles,
                   svcFiles, helperFile, prevFiles, events>>

\* generator.ts 928-938 and the loop of cli.ts 375-388
TypesWrite ==
    /\ phase = "request"
    /\ Idle
    /\ oi > Len(doc)
    /\ typesFiles' = Put(typesFiles, ModuleFile(modules[mi]),
                         [moduleName |-> Str(modules[mi].englishName),
                          declarations |-> typeDefinitions])
    /\ events' = Append(events, <<"write", ModuleFile(modules[mi]) \o ".d.ts">>)
    /\ IF mi < Len(modules)
         THEN mi' = mi + 1 /\ phase' = "types"
         ELSE mi' = 1 /\ phase' = "services"
    /\ UNCHANGED <<label, moduleName, batchAt, calls, schemas, root, result, render, doc, cfg, modules, clock,
                   runsLeft, typePrefix, oi, updateTime, todo, processedTypes,
                   typeDefinitions, svcFiles, helperFile, prevFiles>>

httpMethodOrder == << "GET", "POST", "PUT", "DELETE", "PATCH" >>

helperImportOrder ==
    << "omitParams", "buildFormData", "buildUrlEncoded", "extractArrayBody" >>

\* Array.from of a Set filled in this order: first occurrences
RECURSIVE Dedupe(_, _)
Dedupe(w, seen) ==
    IF w = <<>> THEN <<>>
    ELSE IF w[1] \in seen THEN Dedupe(Tail(w), seen)
    ELSE << w[1] >> \o Dedupe(Tail(w), seen \cup {w[1]})

\* the functions of one module, in document order (serviceGenerator.ts 412-439)
RECURSIVE MethodBlocks(_, _, _, _)
MethodBlocks(entries, module, prefix, reg) ==
    IF entries = <<>> THEN <<>>
    ELSE (IF Matched(entries[1].op, module)
            THEN << generateServiceMethod(entries[1].path, entries[1].method,
                                          entries[1].op, prefix,
                                          MatchedTag(entries[1].op, module), reg) >>
            ELSE <<>>)
         \o MethodBlocks(Tail(entries), module, prefix, reg)

\* the UTF-16 code units of ASCII digits and letters, in ascending order
CodeUnits == DigitChars \o UpperChars \o LowerChars

CodeOf(c) == CHOOSE i \in 1..Len(CodeUnits) : CodeUnits[i] = c

\* a < b for two strings, as Array.prototype.sort compares them by default
RECURSIVE Before(_, _)
Before(a, b) ==
    IF b = <<>> THEN FALSE
    ELSE IF a = <<>> THEN TRUE
    ELSE IF a[1] = b[1] THEN Before(Tail(a), Tail(b))
    ELSE CodeOf(a[1]) < CodeOf(b[1])

\* a sort that leaves the array as it is
KeepOrder(w) == w

RECURSIVE InsertSorted(_, _)
InsertSorted(sorted, x) ==
    IF sorted = <<>> THEN << x >>
    ELSE IF Before(x, sorted[1]) THEN << x >> \o sorted
    ELSE << sorted[1] >> \o InsertSorted(Tail(sorted), x)

RECURSIVE SortFrom(_, _)
SortFrom(w, sorted) ==
    IF w = <<>> THEN sorted ELSE SortFrom(Tail(w), InsertSorted(sorted, w[1]))

\* `array.sort()` without a comparator, on distinct strings
SortDefault(w) == SortFrom(w, <<>>)

\* `types.add(requestType); types.add(responseType)` for every function in
\* turn, then Array.from (serviceGenerator.ts 432-433)
RECURSIVE TypesAdded(_)
TypesAdded(blocks) ==
    IF blocks = <<>> THEN <<>>
    ELSE << blocks[1].interfaceBaseName \o <<"R", "e", "q", "u", "e", "s", "t">>,
            blocks[1].interfaceBaseName \o <<"R", "e", "s", "p", "o", "n", "s", "e">> >>
         \o TypesAdded(Tail(blocks))

\* the client file of one module (serviceGenerator.ts 447-506); typeList
\* holds the names as characters
ClientUnit(module, blocks) ==
    LET used == { blocks[i].httpMethod : i \in 1..Len(blocks) }
        helperUsage == UNION { blocks[i].helpers : i \in 1..Len(blocks) }
    IN [ httpMethods |->
            SelectSeq(httpMethodOrder, LAMBDA m : m \in used)
            \o Dedupe([i \in 1..Len(blocks) |-> blocks[i].httpMethod],
                      { httpMethodOrder[i] : i \in 1..5 }),
         helpers |-> SelectSeq(helperImportOrder, LAMBDA h : h \in helperUsage),
         typeList |-> SortDefault(Dedupe(TypesAdded(blocks), {})),
         typeImport |-> ModuleFile(module) \o ".d",
         methodBlocks |-> blocks ]

\* cli.ts 390-404 and serviceGenerator.ts 367-388
ServicesStart ==
    /\ phase = "services"
    /\ IF cfg.requestConfig
         THEN /\ helperFile' = { helperImportOrder[i] : i \in 1..4 }
              /\ events' = events \o << <<"write", "generatedRequestHelpers.ts">>,
                                        <<"fetch", "generateServices">> >>
              /\ phase' = "client"
         ELSE /\ phase' = "done"
              /\ UNCHANGED <<helperFile, events>>
    /\ mi' = 1
    /\ UNCHANGED <<label, moduleName, batchAt, calls, schemas, root, result, render, doc, cfg, modules, clock,
                   runsLeft, typePrefix, oi, updateTime, todo, processedTypes,
                   typeDefinitions, typesFiles, svcFiles, prevFiles>>

\* one turn of the module loop (serviceGenerator.ts 400-507); the prefix is
\* API_CONFIG.typePrefix (369)
ServicesModule ==
    /\ phase = "client"
    /\ mi <= Len(modules)
    /\ LET blocks == MethodBlocks(doc, modules[mi], cfg.typePrefix, schemas) IN
         /\ blocks # <<>>
         /\ svcFiles' = Put(svcFiles, ModuleFile(modules[mi]),
                            ClientUnit(modules[mi], blocks))
    /\ events' = Append(events, <<"write", ModuleFile(modules[mi]) \o ".ts">>)
    /\ mi' = mi + 1
    /\ UNCHANGED <<label, moduleName, batchAt, calls, schemas, root, phase, result, render, doc, cfg, modules,
                   clock, runsLeft, typePrefix, oi, updateTime, todo,
                   processedTypes, typeDefinitions, typesFiles, helperFile,
                   prevFiles>>

\* serviceGenerator.ts 441-445
ServicesNoOperations ==
    /\ phase = "client"
    /\ mi <= Len(modules)
    /\ MethodBlocks(doc, modules[mi], cfg.typePrefix, schemas) = <<>>
    /\ phase' = "servicesFailed"
    /\ UNCHANGED <<label, moduleName, batchAt, calls, schemas, root, result, render, doc, cfg, modules, clock,
                   runsLeft, typePrefix, mi, oi, updateTime, todo,
                   processedTypes, typeDefinitions, typesFiles, svcFiles,
                   helperFile, prevFiles, events>>

ServicesDone ==
    /\ phase = "client"
    /\ mi > Len(modules)
    /\ phase' = "done"
    /\ UNCHANGED <<label, moduleName, batchAt, calls, schemas, root, result, render, doc, cfg, modules, clock,
                   runsLeft, typePrefix, mi, oi, updateTime, todo,
                   processedTypes, typeDefinitions, typesFiles, svcFiles,
                   helperFile, prevFiles, events>>

\* the tool is started again on the same document and configuration
RunAgain ==
    /\ phase = "done"
    /\ runsLeft > 0
    /\ runsLeft' = runsLeft - 1
    /\ prevFiles' = [ran |-> TRUE, types |-> typesFiles, clients |-> svcFiles]
    /\ phase' = "select"
    /\ events' = <<>>
    /\ todo' = <<>>
    /\ processedTypes' = {}
    /\ typeDefinitions' = <<>>
    /\ mi' = 1
    /\ oi' = 1
    /\ updateTime' = 0
    /\ typePrefix' = <<>>
    /\ UNCHANGED <<label, moduleName, batchAt, calls, schemas, root, result, render, doc, cfg, modules, clock,
                   typesFiles, svcFiles, helperFile>>

\* a second of wall-clock time passes
Tick ==
    /\ clock < MaxClock
    /\ Idle
    /\ phase \in {"select", "types", "collect", "request", "response",
                  "services", "client"} \/ (phase = "done" /\ runsLeft > 0)
    /\ clock' = clock + 1
    /\ UNCHANGED <<label, moduleName, batchAt, calls, schemas, root, phase, result, render, doc, cfg, modules,
                   runsLeft, typePrefix, mi, oi, updateTime, todo,
                   processedTypes, typeDefinitions, typesFiles, svcFiles,
                   helperFile, prevFiles, events>>

\* a run without --prefix and prompts, with the default apifox.config.js
DefaultCfg ==
    [prefix |-> <<>>, typePrefix |-> <<"A", "p", "i">>, interactive |-> FALSE,
     answer |-> <<>>, requestConfig |-> TRUE]

\* the pipeline variables while only the renderer runs
PipeIdle ==
    /\ doc = <<>>
    /\ cfg = DefaultCfg
    /\ modules = <<>>
    /\ clock = 0
    /\ runsLeft = 0
    /\ typePrefix = <<>>
    /\ mi = 1
    /\ oi = 1
    /\ updateTime = 0
    /\ todo = <<>>
    /\ processedTypes = {}
    /\ typeDefinitions = <<>>
    /\ typesFiles = NoFiles
    /\ svcFiles = NoFiles
    /\ helperFile = {}
    /\ prevFiles = [ran |-> FALSE, types |-> NoFiles, clients |-> NoFiles]
    /\ events = <<>>
    /\ batchAt = 1
    /\ calls = <<>>
    /\ label = <<>>
    /\ moduleName = <<>>

(***************************************************************************)
(* Renderer runs: one top-level render over a registry.                    *)
(*   entry "G": generateTypeProps(schema, "  ", schemas), generator.ts 890  *)
(*   entry "H": handleRecursiveType(name, schemas[name], "", schemas,       *)
(*              new Set()), generator.ts 671                                *)
(***************************************************************************)
\* schemas a property may hold
PropPool ==
    { Ref("A"), Ref("B"), Ref("X"),
      Arr(Ref("A")), Arr(Ref("X")), Arr(Prim("string")), Arr(ObjNoProps),
      Arr(Obj(<< <<"v", Ref("A")>> >>, {})), ArrNoItems,
      Obj(<< <<"v", Ref("A")>> >>, {"v"}), ObjNoProps,
      Prim("integer"), NoType }

PairPool ==
    { Ref("A"), Ref("B"), Arr(Ref("A")),
      Arr(Obj(<< <<"v", Ref("A")>> >>, {})), ArrNoItems, Prim("integer") }

\* schemas a registry entry may hold
SchemaPool ==
    { Obj(<< <<"p", x>> >>, {}) : x \in PropPool }
    \cup { Obj(<< <<"p", x>>, <<"q", y>> >>, {"p"}) : x \in PairPool, y \in PairPool }
    \cup { Ref("A"), Ref("B"), Arr(Ref("A")), Arr(Ref("B")), Prim("string") }

CycleRegistries == [{"A", "B"} -> SchemaPool]

\* A chain of ChainLen hops: the root refers to S1, Si to Si+1, the last
\* schema is a string. Each hop is carried by one of four shapes; a chain is
\* cut into two runs of one shape each.
ChainLen == 12

ChainNames ==
    << "S1", "S2", "S3", "S4", "S5", "S6", "S7", "S8", "S9", "S10",
       "S11", "S12", "S13", "S14", "S15", "S16" >>

HopShapes == {"ref", "prop", "propItems", "items"}

Hop(shape, target) ==
    CASE shape = "ref" -> Ref(target)
      [] shape = "prop" -> Obj(<< <<"next", Ref(target)>> >>, {"next"})
      [] shape = "propItems" -> Obj(<< <<"next", Arr(Ref(target))>> >>, {})
      [] shape = "items" -> Arr(Ref(target))

ChainRegistry(first, second, cut) ==
    [n \in {ChainNames[i] : i \in 1..ChainLen} |->
        LET i == CHOOSE j \in 1..ChainLen : ChainNames[j] = n IN
          IF i = ChainLen THEN Prim("string")
          ELSE Hop(IF i <= cut THEN first ELSE second, ChainNames[i + 1])]

ChainRegistries ==
    { ChainRegistry(a, b, c) : a \in HopShapes, b \in HopShapes, c \in 0..(ChainLen - 1) }

IsChain == "S1" \in DOMAIN schemas

RootG(s) == [entry |-> "G", schema |-> s, name |-> ""]

RootH(n) == [entry |-> "H", schema |-> schemas[n], name |-> n]

Roots(reg) ==
    IF "S1" \in DOMAIN reg
      THEN { RootG(Ref("S1")),
             [entry |-> "H", schema |-> reg["S1"], name |-> "S1"] }
      ELSE { RootG(Ref("A")), RootG(Ref("B")), RootG(Arr(Ref("A"))),
             RootG(Obj(<< <<"r", Ref("A")>>, <<"s", Ref("A")>> >>, {"r"})),
             [entry |-> "H", schema |-> reg["A"], name |-> "A"],
             [entry |-> "H", schema |-> reg["B"], name |-> "B"] }

InitRender ==
    /\ schemas \in CycleRegistries \cup ChainRegistries
    /\ root \in Roots(schemas)
    /\ phase = "start"
    /\ stack = <<>>
    /\ sets = <<>>
    /\ returning = FALSE
    /\ retv = NoRet
    /\ result = NoRet
    /\ PipeIdle

\* the top-level call, with its fresh `new Set()`
RenderStart ==
    /\ phase = "start"
    /\ phase' = "render"
    /\ sets' = << NewSet >>
    /\ stack' = << Frame(root.entry, root.schema, root.name, 1, 0,
                         Cont("top", "", FALSE, FALSE)) >>
    /\ UNCHANGED <<schemas, root, returning, retv, result, pipe>>

\* the top-level call returns
RenderFinish ==
    /\ phase = "render"
    /\ returning
    /\ Len(stack) = 1
    /\ Top.k.kind = "top"
    /\ phase' = "done"
    /\ result' = retv
    /\ stack' = <<>>
    /\ returning' = FALSE
    /\ retv' = NoRet
    /\ UNCHANGED <<schemas, root, sets, pipe>>

RenderStep ==
    \/ HrtEnter
    \/ GtpDepthExceeded
    \/ GtpRef
    \/ GtpArray
    \/ GtpObjectProp
    \/ GtpObjectDone
    \/ GtpPrimitive
    \/ GtpAny
    \/ Return

NextRender == RenderStart \/ RenderStep \/ RenderFinish

SpecRender == InitRender /\ [][NextRender]_vars

\* generation is synchronous: a started render runs to its end
FairSpecRender == SpecRender /\ WF_vars(NextRender)

(***************************************************************************)
(* Traversals: besides one top-level render, one top-level call of          *)
(* collectReferencedTypes (generator.ts 706) or of the client's             *)
(* resolveSchema (serviceGenerator.ts 289) over registries.                 *)
(***************************************************************************)
\* `collectReferencedTypes(responseSchemaInfo.schema, true)`, generator.ts 706
CollectStart ==
    /\ phase = "start"
    /\ phase' = "collect"
    /\ todo' = << root.schema >>
    /\ UNCHANGED <<schemas, root, result, render, doc, cfg, modules, clock,
                   runsLeft, typePrefix, mi, oi, updateTime, processedTypes,
                   typeDefinitions, typesFiles, svcFiles, helperFile, prevFiles,
                   events, batchAt, calls, label, moduleName>>

\* the top-level call of resolveSchema, with its default `new Set()`
ResolveStart ==
    /\ phase = "start"
    /\ phase' = "resolve"
    /\ sets' = << NewSet >>
    /\ stack' = << Frame("R", root.schema, "", 1, 0,
                         Cont("resolved", "", FALSE, FALSE)) >>
    /\ UNCHANGED <<schemas, root, returning, retv, result, pipe>>

\* one activation of resolveSchema (serviceGenerator.ts 169-196), the set
\* `seen` being passed on by reference
ResolveSchemaStep ==
    /\ Running
    /\ Top.fn = "R"
    /\ IF /\ IsRef(Top.schema)
          /\ ~RefsHas(sets[Top.pr], Top.schema[2])
          /\ HasSchema(Top.schema[2])
         THEN Call(Frame("R", schemas[Top.schema[2]], Top.schema[2], Top.pr, 0,
                         Cont("pass", "", FALSE, FALSE)),
                   AddTo(Top.pr, Top.schema[2]))
         ELSE ReturnValue(Top.schema)
    /\ UNCHANGED <<schemas, root, phase, result, pipe>>

\* the top-level call of resolveSchema returns
ResolveFinish ==
    /\ phase = "resolve"
    /\ returning
    /\ Len(stack) = 1
    /\ Top.k.kind = "resolved"
    /\ phase' = "resolved"
    /\ result' = retv
    /\ stack' = <<>>
    /\ returning' = FALSE
    /\ retv' = NoRet
    /\ UNCHANGED <<schemas, root, sets, pipe>>

NextTraverse ==
    \/ RenderStart
    \/ RenderStep
    \/ RenderFinish
    \/ CollectStart
    \/ CollectStep
    \/ CollectInterface
    \/ CollectDone
    \/ ResolveStart
    \/ ResolveSchemaStep
    \/ ResolveFinish

\* registries of three schemas: A leads to B, B to A or C, and C to A, to
\* itself or nowhere, every hop in one of the four shapes
TraverseRegistries ==
    { [n \in {"A", "B", "C"} |->
         IF n = "A" THEN Hop(s1, "B") ELSE IF n = "B" THEN Hop(s2, t) ELSE c] :
        s1 \in HopShapes, s2 \in HopShapes, t \in {"A", "C"},
        c \in { Hop(s3, t3) : s3 \in HopShapes, t3 \in {"A", "C"} }
              \cup { Prim("string"), ObjNoProps } }

TraverseRoots(reg) ==
    IF "S1" \in DOMAIN reg
      THEN Roots(reg)
      ELSE { RootG(Ref("A")), RootG(Arr(Ref("A"))),
             [entry |-> "H", schema |-> reg["A"], name |-> "A"] }

InitTraverse ==
    /\ schemas \in TraverseRegistries \cup ChainRegistries
    /\ root \in TraverseRoots(schemas)
    /\ phase = "start"
    /\ stack = <<>>
    /\ sets = <<>>
    /\ returning = FALSE
    /\ retv = NoRet
    /\ result = NoRet
    /\ PipeIdle

SpecTraverse == InitTraverse /\ [][NextTraverse]_vars

\* the calls are synchronous: a started traversal runs on
FairSpecTraverse == SpecTraverse /\ WF_vars(NextTraverse)

(***************************************************************************)
(* Runs of the tool: the documents, configurations and module selections   *)
(* explored.                                                               *)
(***************************************************************************)
DeepLen == 12

DeepNames ==
    << "D1", "D2", "D3", "D4", "D5", "D6", "D7", "D8", "D9", "D10", "D11",
       "D12", "D13" >>

Binary == <<"prim", "string", "binary">>

\* components.schemas of the runs: a self-referencing Pet, a list alias, and
\* a chain of DeepLen aliases D1 -> D2 -> ... ending in a string
StoreRegistry ==
    [n \in {"Pet", "Tag", "TagList"} \cup { DeepNames[i] : i \in 1..DeepLen } |->
        IF n = "Pet"
          THEN Obj(<< <<"id", Prim("integer")>>, <<"mate", Ref("Pet")>>,
                      <<"tags", Arr(Ref("Tag"))>>,
                      <<"owner", Obj(<< <<"name", Prim("string")>> >>, {})>> >>,
                   {"id"})
        ELSE IF n = "Tag" THEN Obj(<< <<"label", Prim("string")>> >>, {})
        ELSE IF n = "TagList" THEN Arr(Ref("Tag"))
        ELSE LET i == CHOOSE j \in 1..DeepLen : DeepNames[j] = n IN
             IF i = DeepLen THEN Prim("string") ELSE Ref(DeepNames[i + 1])]

IdParam == Param(<<"i", "d">>, "path", TRUE, Prim("integer"))

QueryParam == Param(<<"q">>, "query", FALSE, Prim("string"))

ParameterLists ==
    { <<>>, << IdParam >>, << QueryParam >>, << IdParam, QueryParam >>,
      << Param(<<"i", "d", "s", "[", "0", "]">>, "query", FALSE, NoSchema),
         Param(<<"t", "a", "g", "s">>, "query", FALSE, Arr(Ref("Tag"))),
         Param(<<"r", "a", "w">>, "query", TRUE, ArrNoItems) >> }

InlineBody ==
    Obj(<< <<"id", Prim("integer")>>, <<"name", Prim("string")>> >>, {"id"})

NestedBody ==
    Obj(<< <<"tags", Arr(Obj(<< <<"label", Prim("string")>> >>, {}))>>,
           <<"owner", Obj(<< <<"name", Prim("string")>> >>, {"name"})>>,
           <<"list", ArrNoItems>>, <<"nums", Arr(Prim("integer"))>> >>, {})

FormBody ==
    Obj(<< <<"file", Binary>>, <<"id", Prim("integer")>> >>, {"file"})

Json(schema) == Media("application/json", schema)

\* requestBody.content of an operation; NoBody stands for no requestBody
NoBody == << Media("none", NoSchema) >>

BodyPool ==
    { NoBody,
      << Json(InlineBody) >>, << Json(NestedBody) >>, << Json(Ref("Pet")) >>,
      << Json(ArrNoItems) >>, << Json(Arr(Prim("string"))) >>,
      << Json(Arr(Obj(<< <<"v", Ref("Pet")>> >>, {}))) >>,
      << Json(Arr(Ref("Pet"))) >>, << Json(ObjNoProps) >>,
      << Json(Prim("integer")) >>,
      << Media("multipart/form-data", FormBody) >>,
      << Media("multipart/form-data", FormBody), Json(InlineBody) >>,
      << Media("application/x-www-form-urlencoded", InlineBody) >>,
      << Media("application/x-www-form-urlencoded", InlineBody),
         Json(Arr(Prim("string"))) >> }

Methods == { <<"g", "e", "t">>, <<"p", "o", "s", "t">>, <<"p", "u", "t">>, <<"p", "a", "t", "c", "h">>, <<"d", "e", "l", "e", "t", "e">> }

OpWith(tags, parameters, body, responses) ==
    Operation(tags, parameters, body # NoBody,
              IF body = NoBody THEN <<>> ELSE body, responses)

\* one operation POST|GET|... /pets/{id} of tag pet, every request shape
RequestDocs ==
    { << Entry(<<"/", "p", "e", "t", "s", "/", "{", "i", "d", "}">>, m, OpWith(<<"pet">>, ps, b, <<>>)) >> :
        m \in Methods, ps \in ParameterLists, b \in BodyPool }

\* responses an operation may declare; every status offers its own schema
ResponsePool ==
    { Response(<<"2", "0", "0">>, TRUE, << Json(Ref("Pet")) >>),
      Response(<<"2", "0", "1">>, TRUE, << Media("text/plain", Prim("string")),
                               Json(Ref("Tag")) >>),
      Response(<<"2", "0", "4">>, FALSE, <<>>),
      Response(<<"d", "e", "f", "a", "u", "l", "t">>, TRUE, << Json(Prim("boolean")) >>),
      Response(<<"2", "X", "X">>, TRUE, << Json(Arr(Prim("string"))) >>),
      Response(<<"2", "x", "x">>, TRUE, << Media("application/xml", Prim("number")) >>),
      Response(<<"4", "0", "4">>, TRUE, << Json(Prim("integer")) >>),
      Response(<<"2", "0", "0">>, TRUE, << Media("application/json", NoSchema) >>) }

SameStatus(r1, r2) == r1.status = r2.status

ResponseLists ==
    { <<>> }
    \cup { << r >> : r \in ResponsePool }
    \cup { p \in ResponsePool \X ResponsePool : ~SameStatus(p[1], p[2]) }
    \cup { << r1, r2, r3 >> :
             r1 \in { r \in ResponsePool : r.status = <<"d", "e", "f", "a", "u", "l", "t">> },
             r2 \in { r \in ResponsePool : r.status \in {<<"2", "X", "X">>, <<"4", "0", "4">>} },
             r3 \in { r \in ResponsePool : r.status \in {<<"2", "0", "1">>, <<"2", "0", "0">>, <<"2", "0", "4">>} } }

\* one operation GET /pets of tag pet, every response list
ResponseDocs ==
    { << Entry(<<"/", "p", "e", "t", "s">>, <<"g", "e", "t">>, OpWith(<<"pet">>, <<>>, NoBody, rs)) >> :
        rs \in ResponseLists }

\* response schemas that exercise the renderer
RenderDocs ==
    { << Entry(<<"/", "p", "e", "t", "s">>, <<"g", "e", "t">>,
               OpWith(<<"pet">>, <<>>, NoBody,
                      << Response(<<"2", "0", "0">>, TRUE, << Json(x) >>) >>)) >> :
        x \in { Ref("D1"), Ref("TagList"), Ref("Missing"),
                Arr(Obj(<< <<"v", Prim("string")>> >>, {"v"})),
                Obj(<< <<"a", Ref("Tag")>>, <<"b", Ref("Tag")>> >>, {}),
                ArrNoItems,
                Obj(<< <<"n", Prim("string")>>, <<"list", ArrNoItems>> >>, {"n"}) } }

PathPool ==
    { <<"/", "a", "/", "b">>, <<"/", "a", "-", "b">>, <<"/", "a", "B">>, <<"/", "a", "/", "{", "b", "}">>, <<"/", "p", "e", "t", "s", "/", "{", "i", "d", "}">>, <<"/", "p", "e", "t", "s", "/", "i", "d">> }

Slots == { <<pth, m>> : pth \in PathPool, m \in {<<"g", "e", "t">>, <<"p", "o", "s", "t">>} }

Plain(tags) == OpWith(tags, <<>>, NoBody, <<>>)

\* two operations on distinct (path, method) pairs
NamingDocs ==
    { << Entry(s1[1], s1[2], Plain(<<"pet">>)), Entry(s2[1], s2[2], Plain(t)) >> :
        s1 \in Slots, s2 \in Slots, t \in { <<"pet">>, <<"store">>, <<>>, <<"store", "pet">> } }

DistinctSlots(d) ==
    \A i, j \in 1..Len(d) :
       i # j => <<d[i].path, d[i].method>> # <<d[j].path, d[j].method>>

\* two operations that refer to the same named schemas, in either order
SharedDocs ==
    { IF swap THEN << e[2], e[1] >> ELSE e :
        swap \in BOOLEAN,
        e \in { << Entry(<<"/", "p", "e", "t", "s">>, <<"g", "e", "t">>,
                         OpWith(<<"pet">>, <<>>, NoBody,
                                << Response(<<"2", "0", "0">>, TRUE, << Json(r) >>) >>)),
                   Entry(<<"/", "p", "e", "t", "s", "/", "{", "i", "d", "}">>,
                         <<"p", "o", "s", "t">>,
                         OpWith(t, << IdParam >>, b, <<>>)) >> :
                 r \in { Ref("Pet"), Arr(Ref("Tag")),
                         Obj(<< <<"a", Ref("Tag")>>, <<"b", Ref("Pet")>> >>, {}) },
                 b \in { << Json(Ref("Pet")) >>, << Json(Arr(Ref("Tag"))) >>,
                         << Media("multipart/form-data", FormBody),
                            Json(Ref("TagList")) >> },
                 t \in { <<"pet">>, <<"store">> } } }

\* two operations with responses, the second carrying both tags, in either
\* order: module pet compiles both, module store only the second
OrderDocs ==
    { IF swap THEN << e[2], e[1] >> ELSE e :
        swap \in BOOLEAN,
        e \in { << Entry(<<"/", "p", "e", "t", "s">>, <<"g", "e", "t">>,
                         OpWith(<<"pet">>, <<>>, NoBody,
                                << Response(<<"2", "0", "0">>, TRUE, << Json(r[1]) >>) >>)),
                   Entry(<<"/", "p", "e", "t", "s", "/", "{", "i", "d", "}">>,
                         <<"g", "e", "t">>,
                         OpWith(<<"store", "pet">>, << IdParam >>, NoBody,
                                << Response(<<"2", "0", "0">>, TRUE, << Json(r[2]) >>) >>)) >> :
                 r \in { Ref("Pet"), Arr(Ref("Tag")),
                         Obj(<< <<"a", Ref("Tag")>>, <<"b", Ref("Pet")>> >>, {}) }
                       \X { Ref("Pet"), Arr(Ref("Tag")),
                            Obj(<< <<"a", Ref("Tag")>>, <<"b", Ref("Pet")>> >>, {}) } } }

PetModule == Module("pet", <<"p", "e", "t">>)

StoreModule == Module("store", <<"s", "t", "o", "r", "e", "A", "p", "i">>)

EmptyModule == Module("misc", <<"m", "i", "s", "c">>)

\* --prefix, the prompt answer and apifox.config.js
Configs ==
    { [prefix |-> x, typePrefix |-> y, interactive |-> i, answer |-> a,
       requestConfig |-> r] :
        x \in { <<>>, <<"S", "v", "c">> }, y \in { <<"A", "p", "i">>, <<"M", "y">> }, i \in BOOLEAN,
        a \in { <<>>, <<"A", "s", "k">> }, r \in BOOLEAN }

ConfigDoc ==
    << Entry(<<"/", "p", "e", "t", "s", "/", "{", "i", "d", "}">>, <<"p", "o", "s", "t">>,
             OpWith(<<"pet">>, << IdParam >>, << Json(InlineBody) >>,
                    << Response(<<"2", "0", "0">>, TRUE, << Json(Ref("Tag")) >>) >>)) >>

\* the pipeline variables of a run that has not started
Fresh ==
    /\ phase = "select"
    /\ root = NoRet
    /\ result = NoRet
    /\ stack = <<>>
    /\ sets = <<>>
    /\ returning = FALSE
    /\ retv = NoRet
    /\ typePrefix = <<>>
    /\ mi = 1
    /\ oi = 1
    /\ updateTime = 0
    /\ todo = <<>>
    /\ processedTypes = {}
    /\ typeDefinitions = <<>>
    /\ typesFiles = NoFiles
    /\ svcFiles = NoFiles
    /\ helperFile = {}
    /\ prevFiles = [ran |-> FALSE, types |-> NoFiles, clients |-> NoFiles]
    /\ events = <<>>
    /\ batchAt = 1
    /\ calls = <<>>
    /\ label = <<>>
    /\ moduleName = <<>>

Init ==
    /\ schemas = StoreRegistry
    /\ Fresh
    /\ \/ /\ doc \in RequestDocs \cup ResponseDocs \cup RenderDocs
          /\ modules = << PetModule >>
          /\ cfg = DefaultCfg
          /\ clock = MaxClock
          /\ runsLeft = 0
       \/ /\ doc \in { d \in NamingDocs : DistinctSlots(d) }
          /\ modules \in { << PetModule >>, << PetModule, StoreModule >>,
                           << StoreModule, PetModule >>,
                           << PetModule, EmptyModule >>,
                           << EmptyModule, PetModule >> }
          /\ cfg = DefaultCfg
          /\ clock = MaxClock
          /\ runsLeft = 0
       \/ /\ doc \in SharedDocs
          /\ modules \in { << PetModule >>, << PetModule, StoreModule >> }
          /\ cfg = DefaultCfg
          /\ clock = MaxClock
          /\ runsLeft = 0
       \/ /\ doc \in OrderDocs
          /\ modules = << PetModule, StoreModule >>
          /\ cfg = DefaultCfg
          /\ clock = MaxClock
          /\ runsLeft = 0
       \/ /\ doc = ConfigDoc
          /\ modules \in { << PetModule >>, <<>> }
          /\ cfg \in Configs
          /\ clock = 0
          /\ runsLeft = MaxRuns - 1

Next ==
    \/ SelectModules
    \/ TypesStart
    \/ CollectStep
    \/ CollectInterface
    \/ CollectDone
    \/ TypesSkip
    \/ TypesRequest
    \/ TypesRequestRendered
    \/ TypesThrow
    \/ TypesResponse
    \/ TypesResponseRendered
    \/ TypesWrite
    \/ ServicesStart
    \/ ServicesModule
    \/ ServicesNoOperations
    \/ ServicesDone
    \/ RunAgain
    \/ Tick
    \/ RenderStep

Spec == Init /\ [][Next]_vars

\* a started run goes on; the clock is not obliged to advance
FairSpec == Spec /\ WF_vars(Next)

(***************************************************************************)
(* Claims on the renderer.                                                 *)
(***************************************************************************)
\* the registry holds a schema with a property whose $ref points back to it
SelfRefRegistry ==
    \E n \in DOMAIN schemas :
       /\ IsObjWithProps(schemas[n])
       /\ \E i \in 1..Len(schemas[n][2]) : schemas[n][2][i][2] = Ref(n)

\* every field already emitted for a self-referencing property, by an
\* activation rendering the body of the schema it belongs to, is the bare name
CyclePointIsName ==
    \A j \in 1..Len(stack) :
       LET f == stack[j] IN
         (f.fn = "G" /\ f.name # "" /\ IsObjWithProps(f.schema)) =>
            \A i \in 1..Len(f.acc) :
               f.schema[2][i][2] = Ref(f.name) =>
                  f.acc[i].type = <<"name", f.name>>

\* C1: with a self-referencing schema in the registry every render terminates,
\* and the self-referencing property is rendered as the bare schema name,
\* never as an inlined body nor as the max-depth fallback.
C1_SelfReferenceTerminatesByName ==
    /\ SelfRefRegistry => <>(phase = "done")
    /\ [](SelfRefRegistry => CyclePointIsName)

\* interface A { p?: A } collected for a schema A = { p: $ref A }
C1_Witness ==
    /\ phase = "done"
    /\ root.entry = "H"
    /\ root.name = "A"
    /\ schemas["A"] = Obj(<< <<"p", Ref("A")>> >>, {})
    /\ result = <<"braces", <<"props", << Field("p", TRUE, <<"name", "A">>) >> >> >>

GFrames == { j \in 1..Len(stack) : stack[j].fn = "G" }

\* C2: on a chain of more than MAX_DEPTH hops, whichever shape carries each
\* hop, an activation nested deeper than the ceiling is one that returns the
\* depth-exceeded fallback.
C2_DeepChainFallsBack ==
    (IsChain /\ stack # <<>> /\ Cardinality(GFrames) > MAX_DEPTH + 1) =>
        (Top.fn = "G" /\ Top.depth > MAX_DEPTH)

(***************************************************************************)
(* Claims on the run.                                                      *)
(***************************************************************************)
\* C3: when a second run on the same document and configuration has ended,
\* the type-declaration files and the client files equal those the first run
\* left, whatever the wall-clock times of the two runs.
C3_SuccessiveRunsIdentical ==
    (phase = "done" /\ prevFiles.ran) =>
        (typesFiles = prevFiles.types /\ svcFiles = prevFiles.clients)

ExportedNames(unit) ==
    { unit.declarations[i].name :
        i \in { j \in 1..Len(unit.declarations) : unit.declarations[j].exported } }

\* C4: at the end of a run every type name a module's client file imports is
\* a name its type-declaration file exports, whichever of --prefix, the
\* prompt and the configuration file gave the prefix.
C4_ClientImportsExportedNames ==
    phase = "done" =>
        \A f \in DOMAIN svcFiles :
           /\ f \in DOMAIN typesFiles
           /\ { Str(svcFiles[f].typeList[i]) : i \in 1..Len(svcFiles[f].typeList) }
                 \subseteq ExportedNames(typesFiles[f])

\* C5: in every written unit, no two exported Request/Response declarations
\* share a name and no two client functions share a name.
C5_NamesDistinctWithinModule ==
    /\ \A f \in DOMAIN typesFiles :
          LET ds == typesFiles[f].declarations IN
            \A i, j \in 1..Len(ds) :
               (i # j /\ ds[i].exported /\ ds[j].exported) => ds[i].name # ds[j].name
    /\ \A f \in DOMAIN svcFiles :
          LET bs == svcFiles[f].methodBlocks IN
            \A i, j \in 1..Len(bs) : i # j => bs[i].methodName # bs[j].methodName

\* the operation whose Response declaration is being rendered
RenderingResponse == stack # <<>> /\ stack[1].k.kind = "response"

IsNumeric2xx(status) ==
    Len(status) = 3 /\ status[1] = "2" /\ IsDigit(status[2]) /\ IsDigit(status[3])

IsWildcard(status) == ToUpperCase(status) = <<"2", "X", "X">>

IsDefault(status) == ToUpperCase(status) = <<"D", "E", "F", "A", "U", "L", "T">>

\* responses of rs that are successful and offer a schema
Offering(rs) ==
    { i \in 1..Len(rs) :
        /\ IsNumeric2xx(rs[i].status) \/ IsWildcard(rs[i].status) \/ IsDefault(rs[i].status)
        /\ SchemaOfResponse(rs[i]).found }

\* class of a response: numeric code, then wildcard, then default
ClassNumericWildcardDefault(status) ==
    IF IsNumeric2xx(status) THEN 1 ELSE IF IsWildcard(status) THEN 2 ELSE 3

\* i comes first: lowest class, then lowest code, then document order
FirstByPrecedence(rs, i) ==
    \A j \in Offering(rs) \ {i} :
       LET ci == ClassNumericWildcardDefault(rs[i].status)
           cj == ClassNumericWildcardDefault(rs[j].status)
       IN \/ ci < cj
          \/ /\ ci = cj
             /\ IF ci = 1
                  THEN ParseDigits(rs[i].status, 0) < ParseDigits(rs[j].status, 0)
                  ELSE i < j

\* C6 (amended): among the successful responses that offer a schema, the one
\* rendered as the Response type is the lowest numeric 2xx code, else the 2XX
\* wildcard, else `default`.
C6_NumericThenWildcardThenDefault ==
    RenderingResponse =>
        \E i \in Offering(doc[oi].op.responses) :
           /\ FirstByPrecedence(doc[oi].op.responses, i)
           /\ stack[1].schema = SchemaOfResponse(doc[oi].op.responses[i]).schema

DefaultAndWildcardOnly(rs) ==
    /\ \E i \in Offering(rs) : IsDefault(rs[i].status)
    /\ \E i \in Offering(rs) : IsWildcard(rs[i].status)
    /\ \A i \in 1..Len(rs) : ~IsNumeric2xx(rs[i].status)

\* an operation declaring `default` and `2XX`, no numeric code: the schema of
\* `2XX` is being rendered
C6_Witness ==
    /\ RenderingResponse
    /\ DefaultAndWildcardOnly(doc[oi].op.responses)
    /\ \E i \in Offering(doc[oi].op.responses) :
          /\ IsWildcard(doc[oi].op.responses[i].status)
          /\ stack[1].schema = SchemaOfResponse(doc[oi].op.responses[i]).schema
    /\ \A i \in Offering(doc[oi].op.responses) :
          IsDefault(doc[oi].op.responses[i].status) =>
             stack[1].schema # SchemaOfResponse(doc[oi].op.responses[i]).schema

\* C6 as stated: with `default` and `2XX` both offering a schema and no
\* numeric 2xx code declared, the schema of `default` is the one selected.
C6_DefaultBeforeWildcard ==
    (RenderingResponse /\ DefaultAndWildcardOnly(doc[oi].op.responses)) =>
        \E i \in Offering(doc[oi].op.responses) :
           /\ IsDefault(doc[oi].op.responses[i].status)
           /\ stack[1].schema = SchemaOfResponse(doc[oi].op.responses[i]).schema

\* the operation a client function was generated from
OperationOf(block) ==
    doc[CHOOSE i \in 1..Len(doc) :
           /\ Str(doc[i].path) = block.path
           /\ Str(ToUpperCase(doc[i].method)) = block.httpMethod].op

ClientFunctions ==
    UNION { { svcFiles[f].methodBlocks[i] : i \in 1..Len(svcFiles[f].methodBlocks) } :
              f \in DOMAIN svcFiles }

Writes(block) == block.httpMethod \in {"POST", "PUT", "PATCH"}

\* C7: every written POST/PUT/PATCH function of an operation declaring both
\* multipart/form-data and application/json content has content type
\* multipart/form-data and data buildFormData(params), whatever its parameters.
C7_MultipartWinsOverJson ==
    \A b \in ClientFunctions :
       (/\ Writes(b)
        /\ OperationOf(b).hasBody
        /\ HasMedia(OperationOf(b).content, "multipart/form-data")
        /\ HasMedia(OperationOf(b).content, "application/json"))
       => (/\ b.contentType = "multipart/form-data"
           /\ b.arg = <<"buildFormData", <<"params">>>>)

\* C8: the data of every written POST/PUT/PATCH function of an operation with
\* path parameters leaves every path parameter out, for each content type.
C8_BodyExcludesPathParams ==
    \A b \in ClientFunctions :
       (Writes(b) /\ Len(PathParams(OperationOf(b))) > 0) =>
          /\ b.send = "data"
          /\ \/ b.arg = <<"params?.body">>
             \/ /\ b.arg[1] = "omitParams"
                /\ \A i \in 1..Len(PathParams(OperationOf(b))) :
                      \E k \in 1..Len(b.arg[2]) :
                         b.arg[2][k] = Str(PathParams(OperationOf(b))[i].name)

RequestDeclarations ==
    UNION { { typesFiles[f].declarations[i] :
                i \in { j \in 1..Len(typesFiles[f].declarations) :
                          typesFiles[f].declarations[j].docc.role = "request" } } :
              f \in DOMAIN typesFiles }

\* the operation a declaration was generated from
OperationOfDecl(d) ==
    doc[CHOOSE i \in 1..Len(doc) :
           /\ Str(doc[i].path) = d.docc.path
           /\ Str(ToUpperCase(doc[i].method)) = d.docc.method].op

HasPathParamId(op) ==
    \E i \in 1..Len(op.parameters) :
       op.parameters[i].in = "path" /\ op.parameters[i].name = <<"i", "d">>

HasJsonBodyPropertyId(op) ==
    /\ op.hasBody
    /\ IsObjWithProps(MediaSchema(op.content, "application/json"))
    /\ \E i \in 1..Len(MediaSchema(op.content, "application/json")[2]) :
          MediaSchema(op.content, "application/json")[2][i][1] = "id"

\* C9: the written Request interface of an operation with a path parameter id
\* and a JSON body property id declares every field name once.
C9_NoDuplicateRequestField ==
    \A d \in RequestDeclarations :
       (/\ HasPathParamId(OperationOfDecl(d))
        /\ HasJsonBodyPropertyId(OperationOfDecl(d))
        /\ d.body[1] = "props")
       => \A i, j \in 1..Len(d.body[2]) :
             i # j => d.body[2][i].name # d.body[2][j].name

\* generateTypes has ended for module j of this run
TypesEnded(j) ==
    \/ phase \in {"services", "client", "done", "servicesFailed"}
    \/ phase \in {"types", "collect", "request", "response"} /\ j < mi
    \/ phase = "typesFailed" /\ j <= mi

DeclarationsOf(unit, e, role) ==
    { i \in 1..Len(unit.declarations) :
        /\ unit.declarations[i].docc.role = role
        /\ unit.declarations[i].docc.path = Str(e.path)
        /\ unit.declarations[i].docc.method = Str(ToUpperCase(e.method)) }

\* C10: once generateTypes has ended for a module, its unit holds exactly one
\* Request and one Response declaration for every operation carrying the
\* module's tag, and none for any other operation.
C10_TotalOverTaggedOperations ==
    \A j \in 1..Len(modules) :
       (phase # "select" /\ TypesEnded(j)) =>
          /\ ModuleFile(modules[j]) \in DOMAIN typesFiles
          /\ \A k \in 1..Len(doc) :
                LET unit == typesFiles[ModuleFile(modules[j])]
                    n == IF Matched(doc[k].op, modules[j]) THEN 1 ELSE 0
                IN /\ Cardinality(DeclarationsOf(unit, doc[k], "request")) = n
                   /\ Cardinality(DeclarationsOf(unit, doc[k], "response")) = n

(***************************************************************************)
(* Claims on the type unit of a module.                                    *)
(***************************************************************************)
\* the registry names a schema mentions, at any depth of items and properties
RECURSIVE NamesIn(_)
NamesIn(s) ==
    IF IsRef(s) THEN { s[2] }
    ELSE IF s[1] = "array" THEN NamesIn(s[2])
    ELSE IF IsObjWithProps(s)
      THEN UNION { NamesIn(s[2][i][2]) : i \in 1..Len(s[2]) }
    ELSE {}

\* the named schemas reachable from a set of names through the registry
RECURSIVE ReachableFrom(_)
ReachableFrom(names) ==
    LET more == names \cup UNION { NamesIn(schemas[n]) \cap DOMAIN schemas : n \in names }
    IN IF more = names THEN names ELSE ReachableFrom(more)

\* the selected response schema and the request-body schemas of an operation
OperationSchemas(op) ==
    (IF getSuccessfulResponseSchema(op).found
       THEN { getSuccessfulResponseSchema(op).schema } ELSE {})
    \cup (IF op.hasBody
           THEN { op.content[i].schema : i \in 1..Len(op.content) } \ { NoSchema }
           ELSE {})

\* the named schemas operation k of the document reaches
ReachedBy(k) ==
    ReachableFrom(UNION { NamesIn(s) : s \in OperationSchemas(doc[k].op) }
                  \cap DOMAIN schemas)

InterfacesNamed(unit, n) ==
    { i \in 1..Len(unit.declarations) :
        /\ unit.declarations[i].kind = "interface"
        /\ unit.declarations[i].name = n }

\* C11: in the written type unit of a module, every named schema reachable
\* from the selected response schema or a request-body schema of an operation
\* carrying the module's tag is declared by exactly one `interface <Name>`.
C11_ReachableSchemaDeclaredOnce ==
    \A j \in 1..Len(modules) :
       (/\ phase # "select"
        /\ TypesEnded(j)
        /\ ModuleFile(modules[j]) \in DOMAIN typesFiles)
       => \A k \in 1..Len(doc) :
             Matched(doc[k].op, modules[j]) =>
                \A n \in ReachedBy(k) :
                   Cardinality(InterfacesNamed(typesFiles[ModuleFile(modules[j])], n)) = 1

\* a unit is written whose two operations both reach Pet, one of them by its
\* request body only, and Pet is declared once
C11_Witness ==
    /\ phase = "done"
    /\ Len(doc) = 2
    /\ Matched(doc[1].op, modules[1]) /\ Matched(doc[2].op, modules[1])
    /\ "Pet" \in ReachedBy(1) \cap ReachedBy(2)
    /\ \E k \in 1..2 : ~getSuccessfulResponseSchema(doc[k].op).found
    /\ ModuleFile(modules[1]) \in DOMAIN typesFiles
    /\ Cardinality(InterfacesNamed(typesFiles[ModuleFile(modules[1])], "Pet")) = 1

(***************************************************************************)
(* Claims on failures of a run.                                            *)
(***************************************************************************)
\* the run is over: it returned, or an error left run() (cli.ts 407-418)
RunEnded == phase \in {"done", "typesFailed", "servicesFailed"}

MatchesNone(module) == \A k \in 1..Len(doc) : ~Matched(doc[k].op, module)

\* C12: when a run of several modules, one of which matches no operation, is
\* over, every module that matches an operation has its type unit written
\* and, with a requestConfig, its client unit too, wherever it stands in the
\* list.
C12_EmptyModuleDoesNotStopOthers ==
    (/\ RunEnded
     /\ Len(modules) > 1
     /\ \E j \in 1..Len(modules) : MatchesNone(modules[j]))
    => \A k \in 1..Len(modules) :
          ~MatchesNone(modules[k]) =>
             /\ ModuleFile(modules[k]) \in DOMAIN typesFiles
             /\ cfg.requestConfig => ModuleFile(modules[k]) \in DOMAIN svcFiles

\* the files written so far by this run
WrittenThisRun ==
    { events[i][2] : i \in { k \in 1..Len(events) : events[k][1] = "write" } }

\* C13: when generation has failed for a module (its types or its client
\* raised an error, or its tag matched no operation), this run has written
\* neither the type-declaration file nor the client file of that module.
C13_FailedModuleLeavesNoFile ==
    phase \in {"typesFailed", "servicesFailed"} =>
       /\ ModuleFile(modules[mi]) \o ".d.ts" \notin WrittenThisRun
       /\ ModuleFile(modules[mi]) \o ".ts" \notin WrittenThisRun

HasArrayWithoutItems(schema) ==
    \E i \in 1..Len(schema[2]) : schema[2][i][2] = ArrNoItems

\* C14: an array schema without items never ends generateTypes with an
\* error, and an object holding such a property is still rendered property
\* by property.
C14_ArrayWithoutItemsNeverAborts ==
    /\ phase # "typesFailed"
    /\ (/\ returning
        /\ Top.fn = "G"
        /\ Top.depth <= MAX_DEPTH
        /\ IsObjWithProps(Top.schema)
        /\ HasArrayWithoutItems(Top.schema))
       => /\ retv[1] = "props"
          /\ Len(retv[2]) = Len(Top.schema[2])

(***************************************************************************)
(* batchTranslate (cli.ts 103-128), called by selectModules on the modules  *)
(* it has just built from the tags of the document (cli.ts 152-158): every  *)
(* module comes without englishName. The callbacks of one batch run up to   *)
(* their `await translateText(...)` inside batch.map; the calls settle in   *)
(* any order and Promise.all lets the loop go on once all have settled.     *)
(* The batch size, 20 in the source, and the number of modules are bounds.  *)
(***************************************************************************)
BatchSize == 2

MaxModules == 4

\* what translateAndConvert (lib/translate.js 124-131) does with a label:
\* the request fails, there are no credentials and the label comes back, or
\* the service answers with a text
Rejects == <<"rejects">>

NoCredentials == <<"nocred">>

Answers(t) == <<"ok", t>>

\* `/^[a-zA-Z0-9\s]+$/.test(text)` (translator.ts 6)
IsPlainText(text) ==
    /\ text # <<>>
    /\ \A i \in 1..Len(text) :
          IsLetter(text[i]) \/ IsDigit(text[i]) \/ text[i] = " "

\* translator.ts 13-21: split on blanks and hyphens, lower-case, capitalise
\* all words but the first, join
JoinWords(translated) ==
    LET parts == SplitOn(translated, {" ", "-"}, <<>>) IN
      Flatten([i \in 1..Len(parts) |->
                 IF i = 1 THEN ToLowerCase(parts[i])
                 ELSE UpperFirst(ToLowerCase(parts[i]))])

\* translateAndConvert (lib/translate.js 124-131) when it does not reject
translateAndConvert(str, outcome) ==
    IF outcome = NoCredentials THEN str ELSE CamelCase(outcome[2])

\* a translateText that hands back nothing when the request fails
translateTextDropsLabel(text, outcome) ==
    IF IsPlainText(text) THEN text
    ELSE IF outcome = Rejects THEN <<>>
    ELSE JoinWords(translateAndConvert(text, outcome))

\* translateText (translator.ts 3-27): its catch returns the original text
translateText(text, outcome) ==
    IF IsPlainText(text) THEN text
    ELSE IF outcome = Rejects THEN text
    ELSE JoinWords(translateAndConvert(text, outcome))

\* tag names, trimmed and non-empty (cli.ts 57-58)
Labels ==
    << <<"p", "e", "t">>, <<"p", "e", "t", "-", "S", "H", "O", "P">>,
       <<"#", "1">>, <<"#">>, <<"m", "y", " ", "p", "e", "t">>,
       <<"m", "y", "-", "p", "e", "t">> >>

\* texts the translation service may answer with
Translations ==
    { <<>>, <<"U", "s", "e", "r", " ", "l", "i", "s", "t">>, <<"1", "2">> }

LabelSet == { Labels[i] : i \in 1..Len(Labels) }

Outcomes == { Rejects, NoCredentials } \cup { Answers(t) : t \in Translations }

\* `formatModuleName(translated)` of cli.ts 116-117, for every label and
\* every outcome of its request
TranslatedName ==
    [tag \in LabelSet, outcome \in Outcomes |->
        formatModuleName(translateText(tag, outcome))]

Idling == <<"idle">>

Awaiting == <<"awaiting">>

Kept == <<"kept">>

Plainly == <<"plain">>

\* a grouping that puts every remaining module in one batch
BatchOfAllRemaining(first) == { i \in 1..Len(modules) : first <= i }

BatchOf(first) ==
    { i \in 1..Len(modules) : first <= i /\ i < first + BatchSize }

Settled(i) == calls[i] \notin { Idling, Awaiting }

\* `await Promise.all(batch.map(async (module) => ...))`: the synchronous
\* part of every callback of the batch (cli.ts 111-125)
BatchOpen ==
    /\ phase = "translate"
    /\ batchAt <= Len(modules)
    /\ \A i \in BatchOf(batchAt) : calls[i] = Idling
    /\ calls' = [i \in 1..Len(modules) |->
                   IF i \in BatchOf(batchAt)
                     THEN IF modules[i].englishName = <<>> THEN Awaiting ELSE Kept
                     ELSE calls[i]]
    /\ modules' = [i \in 1..Len(modules) |->
                     IF i \in BatchOf(batchAt) /\ modules[i].englishName # <<>>
                       THEN [modules[i] EXCEPT
                               !.englishName = formatModuleName(@)]
                       ELSE modules[i]]
    /\ UNCHANGED <<label, moduleName, schemas, root, phase, result, render, doc, cfg, clock,
                   runsLeft, typePrefix, mi, oi, updateTime, todo,
                   processedTypes, typeDefinitions, typesFiles, svcFiles,
                   helperFile, prevFiles, events, batchAt>>

\* the callback of module i goes on after its await (cli.ts 116-117)
Settle(i, outcome, mark) ==
    /\ phase = "translate"
    /\ i \in 1..Len(modules)
    /\ calls[i] = Awaiting
    /\ modules' = [modules EXCEPT ![i].englishName =
                      TranslatedName[modules[i].name, outcome]]
    /\ calls' = [calls EXCEPT ![i] = mark]
    /\ UNCHANGED <<label, moduleName, schemas, root, phase, result, render, doc, cfg, clock,
                   runsLeft, typePrefix, mi, oi, updateTime, todo,
                   processedTypes, typeDefinitions, typesFiles, svcFiles,
                   helperFile, prevFiles, events, batchAt>>

\* the label is plain English already: no request is made
TranslatePlain(i) ==
    /\ i \in 1..Len(modules)
    /\ IsPlainText(modules[i].name)
    /\ Settle(i, NoCredentials, Plainly)

TranslateRejects(i) ==
    /\ i \in 1..Len(modules)
    /\ ~IsPlainText(modules[i].name)
    /\ Settle(i, Rejects, Rejects)

TranslateNoCredentials(i) ==
    /\ i \in 1..Len(modules)
    /\ ~IsPlainText(modules[i].name)
    /\ Settle(i, NoCredentials, NoCredentials)

TranslateAnswers(i, t) ==
    /\ i \in 1..Len(modules)
    /\ ~IsPlainText(modules[i].name)
    /\ Settle(i, Answers(t), Answers(t))

\* every promise of the batch is fulfilled: the next batch, or the end
BatchClose ==
    /\ phase = "translate"
    /\ batchAt <= Len(modules)
    /\ \A i \in BatchOf(batchAt) : Settled(i)
    /\ batchAt' = batchAt + BatchSize
    /\ phase' = IF batchAt + BatchSize > Len(modules)
                  THEN "translated" ELSE "translate"
    /\ UNCHANGED <<label, moduleName, schemas, root, result, render, doc, cfg, modules, clock,
                   runsLeft, typePrefix, mi, oi, updateTime, todo,
                   processedTypes, typeDefinitions, typesFiles, svcFiles,
                   helperFile, prevFiles, events, calls>>

LabelLists ==
    { [i \in 1..n |-> Labels[((i + k) % Len(Labels)) + 1]] :
        n \in 1..MaxModules, k \in 0..(Len(Labels) - 1) }

InitTranslate ==
    /\ schemas = StoreRegistry
    /\ root = NoRet
    /\ result = NoRet
    /\ stack = <<>>
    /\ sets = <<>>
    /\ returning = FALSE
    /\ retv = NoRet
    /\ doc = <<>>
    /\ cfg = DefaultCfg
    /\ clock = 0
    /\ runsLeft = 0
    /\ typePrefix = <<>>
    /\ mi = 1
    /\ oi = 1
    /\ updateTime = 0
    /\ todo = <<>>
    /\ processedTypes = {}
    /\ typeDefinitions = <<>>
    /\ typesFiles = NoFiles
    /\ svcFiles = NoFiles
    /\ helperFile = {}
    /\ prevFiles = [ran |-> FALSE, types |-> NoFiles, clients |-> NoFiles]
    /\ events = <<>>
    /\ phase = "translate"
    /\ \E labels \in LabelLists :
          modules = [i \in 1..Len(labels) |-> Module(labels[i], <<>>)]
    /\ batchAt = 1
    /\ calls = [i \in 1..Len(modules) |-> Idling]
    /\ label = <<>>
    /\ moduleName = <<>>

NextTranslate ==
    \/ BatchOpen
    \/ \E i \in 1..MaxModules : TranslatePlain(i)
    \/ \E i \in 1..MaxModules : TranslateRejects(i)
    \/ \E i \in 1..MaxModules : TranslateNoCredentials(i)
    \/ \E i \in 1..MaxModules, t \in Translations : TranslateAnswers(i, t)
    \/ BatchClose

SpecTranslate == InitTranslate /\ [][NextTranslate]_vars

\* a pending request settles and the event loop runs what is ready
FairSpecTranslate == SpecTranslate /\ WF_vars(NextTranslate)

(***************************************************************************)
(* Claims on batchTranslate.                                               *)
(***************************************************************************)
Translated == phase = "translated"

\* formatModuleName of every label
FormattedLabel == [tag \in LabelSet |-> formatModuleName(tag)]

\* formatModuleName of what translateText makes of every answer
FormattedAnswer ==
    [t \in Translations |-> formatModuleName(JoinWords(CamelCase(t)))]

\* C15: batchTranslate resolves; when it has, every module has a non-empty
\* englishName, that of a module whose translation failed is
\* formatModuleName of its label, and that of every other module comes from
\* its own translation result.
C15_FailedTranslationFallsBack ==
    /\ <>Translated
    /\ [](Translated =>
            \A i \in 1..Len(modules) :
               /\ modules[i].englishName # <<>>
               /\ calls[i] = Rejects =>
                     modules[i].englishName = FormattedLabel[modules[i].name]
               /\ calls[i][1] = "ok" =>
                     modules[i].englishName = FormattedAnswer[calls[i][2]])

\* a translation failed while another one of the same batch and one of a
\* later batch were answered
C15_Witness ==
    /\ Translated
    /\ \E i, j, k \in 1..Len(modules) :
          /\ calls[i] = Rejects
          /\ i # j
          /\ i \in BatchOf(1) /\ j \in BatchOf(1)
          /\ calls[j][1] = "ok" /\ calls[j][2] # <<>>
          /\ k \notin BatchOf(1)
          /\ calls[k][1] = "ok"
          /\ modules[i].englishName = FormattedLabel[modules[i].name]

(***************************************************************************)
(* Claims on the client unit of a module.                                  *)
(***************************************************************************)
HelperNames == { helperImportOrder[i] : i \in 1..Len(helperImportOrder) }

\* the helpers the generated code of a function calls
InvokedBy(block) == { block.arg[1] } \cap HelperNames

InvokedIn(unit) ==
    UNION { InvokedBy(unit.methodBlocks[i]) : i \in 1..Len(unit.methodBlocks) }

\* C16: every written client unit imports exactly the helpers its functions
\* invoke, and the helper file declares no helper that no function of any
\* written client unit invokes.
C16_OnlyInvokedHelpers ==
    /\ \A f \in DOMAIN svcFiles :
          { svcFiles[f].helpers[i] : i \in 1..Len(svcFiles[f].helpers) }
             = InvokedIn(svcFiles[f])
    /\ phase = "done" =>
          helperFile \subseteq UNION { InvokedIn(svcFiles[f]) : f \in DOMAIN svcFiles }

\* the documents that hold the operations of doc in another order
Reorderings ==
    { [i \in 1..Len(doc) |-> doc[p[i]]] :
        p \in { q \in [1..Len(doc) -> 1..Len(doc)] :
                  \A i, k \in 1..Len(doc) : i # k => q[i] # q[k] } }

\* path and method of the operations of a module, as the document lists them
EncounterOrder(module) ==
    LET matched == SelectSeq(doc, LAMBDA e : Matched(e.op, module))
    IN [i \in 1..Len(matched) |->
          << Str(matched[i].path), Str(ToUpperCase(matched[i].method)) >>]

\* the module a written client unit belongs to
ModulesOf(f) == { j \in 1..Len(modules) : ModuleFile(modules[j]) = f }

\* C17: the type names a written client unit imports are distinct and in
\* ascending code-unit order, they are the same list for every reordering
\* of the operations of the document, and the functions of the unit keep
\* the order of the document.
C17_TypeImportsSortedFunctionsInOrder ==
    \A f \in DOMAIN svcFiles : \A j \in ModulesOf(f) :
       LET unit == svcFiles[f] IN
         /\ \A i, k \in 1..Len(unit.typeList) :
               i < k => Before(unit.typeList[i], unit.typeList[k])
         /\ \A d \in Reorderings :
               ClientUnit(modules[j],
                          MethodBlocks(d, modules[j], cfg.typePrefix, schemas)).typeList
                  = unit.typeList
         /\ [i \in 1..Len(unit.methodBlocks) |->
               << unit.methodBlocks[i].path, unit.methodBlocks[i].httpMethod >>]
              = EncounterOrder(modules[j])

\* a unit of two functions is written whose imports are not in the order the
\* functions added them
C17_Witness ==
    /\ phase = "done"
    /\ \E f \in DOMAIN svcFiles :
          /\ Len(svcFiles[f].methodBlocks) = 2
          /\ Len(svcFiles[f].typeList) = 4
          /\ svcFiles[f].typeList # TypesAdded(svcFiles[f].methodBlocks)

(***************************************************************************)
(* formatModuleName on its own: every label of at most MaxLabelLen          *)
(* characters over lower-case and upper-case letters, digits and            *)
(* separators (no ordinal such as 1st, no apostrophe, ASCII only).          *)
(***************************************************************************)
MaxLabelLen == 3

LabelChars == { "a", "Z", "7", "-", " ", "_" }

LabelsUpTo(n) == UNION { [1..k -> LabelChars] : k \in 0..n }

InitNames ==
    /\ schemas = StoreRegistry
    /\ root = NoRet
    /\ result = NoRet
    /\ stack = <<>>
    /\ sets = <<>>
    /\ returning = FALSE
    /\ retv = NoRet
    /\ doc = <<>>
    /\ cfg = DefaultCfg
    /\ modules = <<>>
    /\ clock = 0
    /\ runsLeft = 0
    /\ typePrefix = <<>>
    /\ mi = 1
    /\ oi = 1
    /\ updateTime = 0
    /\ todo = <<>>
    /\ processedTypes = {}
    /\ typeDefinitions = <<>>
    /\ typesFiles = NoFiles
    /\ svcFiles = NoFiles
    /\ helperFile = {}
    /\ prevFiles = [ran |-> FALSE, types |-> NoFiles, clients |-> NoFiles]
    /\ events = <<>>
    /\ batchAt = 1
    /\ calls = <<>>
    /\ phase = "label"
    /\ label \in LabelsUpTo(MaxLabelLen)
    /\ moduleName = <<>>

\* one call of formatModuleName (formatters.ts 20-38)
FormatLabel ==
    /\ phase = "label"
    /\ moduleName' = formatModuleName(label)
    /\ phase' = "named"
    /\ UNCHANGED <<schemas, root, result, render, doc, cfg, modules, clock,
                   runsLeft, typePrefix, mi, oi, updateTime, todo,
                   processedTypes, typeDefinitions, typesFiles, svcFiles,
                   helperFile, prevFiles, events, batchAt, calls, label>>

NextNames == FormatLabel

SpecNames == InitNames /\ [][NextNames]_vars

(***************************************************************************)
(* Claims on formatModuleName.                                             *)
(***************************************************************************)
\* `s.replace(/^[^a-zA-Z]+/, "")`
RECURSIVE StripLeadingNonLetters(_)
StripLeadingNonLetters(w) ==
    IF w = <<>> THEN <<>>
    ELSE IF IsLetter(w[1]) THEN w
    ELSE StripLeadingNonLetters(Tail(w))

ModuleWord == <<"m", "o", "d", "u", "l", "e">>

\* C18: for every label formatModuleName returns a non-empty name of letters
\* and digits that starts with a letter: the camel-cased label without its
\* leading non-letters when that is not empty, `module` followed by the
\* capitalised camel-cased label when only the stripping empties it, and
\* `module` when the camel-cased label is empty.
C18_ModuleNameTotal ==
    phase = "named" =>
       LET camelized == CamelCase(label)
           stripped == StripLeadingNonLetters(camelized)
       IN /\ moduleName # <<>>
          /\ IsLetter(moduleName[1])
          /\ \A i \in 1..Len(moduleName) :
                IsLetter(moduleName[i]) \/ IsDigit(moduleName[i])
          /\ stripped # <<>> => moduleName = stripped
          /\ (stripped = <<>> /\ camelized # <<>>) =>
                moduleName = ModuleWord \o UpperFirst(camelized)
          /\ camelized = <<>> => moduleName = ModuleWord

\* the three cases: digits before letters, digits alone, separators alone
C18_Witness ==
    /\ phase = "named"
    /\ \/ label = <<"7", "a", "Z">> /\ moduleName = <<"A", "Z">>
       \/ label = <<"7", "-", "7">> /\ moduleName = ModuleWord \o <<"7", "7">>
       \/ label = <<"-", " ">> /\ moduleName = ModuleWord

(***************************************************************************)
(* Claims on rendered object bodies.                                       *)
(***************************************************************************)
\* the fields fs are the properties of schema, one each, in their order, and
\* optional exactly when not listed as required
FieldsFollow(fs, props, required) ==
    /\ Len(fs) = Len(props)
    /\ \A i \in 1..Len(props) :
          /\ fs[i].name = props[i][1]
          /\ fs[i].opt = (props[i][1] \notin required)

RequiredOf(schema) == IF IsObjWithProps(schema) THEN schema[3] ELSE {}

\* the body fields of a Request declaration follow the properties of the
\* url-encoded, multipart and JSON schemas of its operation
BodyFieldsFollow(d) ==
    LET op == OperationOfDecl(d)
        urlenc == MediaSchema(op.content, "application/x-www-form-urlencoded")
        form == MediaSchema(op.content, "multipart/form-data")
        json == MediaSchema(op.content, "application/json")
        fields == SubSeq(d.body[2], Len(op.parameters) + 1, Len(d.body[2]))
        nu == Len(PropsOf(urlenc))
        nf == Len(PropsOf(form))
    IN /\ Len(fields) = nu + nf + Len(PropsOf(json))
       /\ FieldsFollow(SubSeq(fields, 1, nu), PropsOf(urlenc), RequiredOf(urlenc))
       /\ FieldsFollow(SubSeq(fields, nu + 1, nu + nf), PropsOf(form),
                       RequiredOf(form))
       /\ FieldsFollow(SubSeq(fields, nu + nf + 1, Len(fields)), PropsOf(json),
                       RequiredOf(json))

\* C19: every object that generateTypeProps renders comes back as its
\* properties, one field each, in declaration order, with `?` exactly on
\* those not in `required`; and so do the body fields of every written
\* Request interface built by generateRequestBodyType.
C19_PropertiesOnceInOrderWithMarks ==
    /\ (/\ returning
        /\ Top.fn = "G"
        /\ Top.depth <= MAX_DEPTH
        /\ IsObjWithProps(Top.schema))
       => /\ retv[1] = "props"
          /\ FieldsFollow(retv[2], Top.schema[2], Top.schema[3])
    /\ \A d \in RequestDeclarations :
          (/\ OperationOfDecl(d).hasBody
           /\ generateRequestBodyType(OperationOfDecl(d)).kind = "interface")
          => BodyFieldsFollow(d)

(***************************************************************************)
(* Claims on references during one render.                                 *)
(***************************************************************************)
\* the registry schemas being resolved at activation i and below it
AncestorNames(i) == { stack[j].name : j \in 1..i } \ { "" }

RefToRegistry(s) == IsRef(s) /\ HasSchema(s[2])

\* C20: a property that refers to a registry schema is rendered as the name
\* of that schema exactly when the schema is being resolved on the path from
\* the root, and with the inlined body otherwise; a schema that is itself a
\* reference never comes back as the circular-reference fallback, and comes
\* back as the name when its target is on that path.
C20_NameExactlyForAncestors ==
    /\ \A i \in 1..Len(stack) :
          (stack[i].fn = "G" /\ IsObjWithProps(stack[i].schema)) =>
             \A k \in 1..Len(stack[i].acc) :
                LET prop == stack[i].schema[2][k][2] IN
                  RefToRegistry(prop) =>
                     IF prop[2] \in AncestorNames(i)
                       THEN stack[i].acc[k].type = <<"name", prop[2]>>
                       ELSE stack[i].acc[k].type[1] = "braces"
    /\ (/\ returning
        /\ Top.fn = "G"
        /\ Top.depth <= MAX_DEPTH
        /\ RefToRegistry(Top.schema))
       => /\ retv[1] # "anyCircular"
          /\ Top.schema[2] \in AncestorNames(Len(stack)) =>
                retv = <<"name", Top.schema[2]>>

(***************************************************************************)
(* Claims on the nesting of one render.                                    *)
(***************************************************************************)
\* how deep generateTypeProps is nested: its activations beneath the outermost
\* one (the outermost runs at depth 0)
NestingOfG == IF GFrames = {} THEN 0 ELSE Cardinality(GFrames) - 1

\* C21: during one top-level render, the number of nested generateTypeProps
\* activations, those entered through handleRecursiveType included, exceeds
\* the ceiling MAX_DEPTH by at most one.
C21_NestingWithinCeiling ==
    NestingOfG <= MAX_DEPTH + 1

(***************************************************************************)
(* Claims on arrays of inline objects.                                     *)
(***************************************************************************)
\* the schema is an array whose items are an inline object with properties
IsInlineObjectArray(s) == s[1] = "array" /\ IsObjWithProps(s[2])

\* the text is `{ ... }[]` with one field for each declared property of items
SpellsOut(type, items) ==
    /\ type[1] = "arr"
    /\ type[2][1] = "braces"
    /\ type[2][2][1] = "props"
    /\ Len(type[2][2][2]) = Len(items[2])
    /\ \A i \in 1..Len(items[2]) : type[2][2][2][i].name = items[2][i][1]

\* C22: every property that is an array of inline objects is rendered as an
\* anonymous object-array spelling out the declared properties of its items,
\* however many such properties one top-level render meets.
C22_InlineObjectArraysSpelledOut ==
    \A j \in 1..Len(stack) :
       LET f == stack[j] IN
         (f.fn = "G" /\ IsObjWithProps(f.schema)) =>
            \A i \in 1..Len(f.acc) :
               IsInlineObjectArray(f.schema[2][i][2]) =>
                  SpellsOut(f.acc[i].type, f.schema[2][i][2][2])

(***************************************************************************)
(* Claims on the independence of the renders of one run.                   *)
(***************************************************************************)
\* every declaration written so far or held by the unit under construction
AllDeclarations ==
    UNION { { typesFiles[f].declarations[i] :
                i \in 1..Len(typesFiles[f].declarations) } :
              f \in DOMAIN typesFiles }
    \cup { typeDefinitions[i] : i \in 1..Len(typeDefinitions) }

IsCollected(d) == d.kind = "interface" /\ ~d.exported

RenderedResponse(d) ==
    d.docc.role = "response" /\ getSuccessfulResponseSchema(OperationOfDecl(d)).found

\* C23: the body of a Response type and of a collected named interface is
\* determined by its schema and the registry alone: two Response declarations
\* of one run rendered from the same schema have the same body, and so have
\* two collected interfaces of the same name, whichever operations were
\* compiled before each of them.
C23_BodyIndependentOfEarlierOperations ==
    \A d1, d2 \in AllDeclarations :
       /\ (IsCollected(d1) /\ IsCollected(d2) /\ d1.name = d2.name)
             => d1.body = d2.body
       /\ (/\ RenderedResponse(d1)
           /\ RenderedResponse(d2)
           /\ getSuccessfulResponseSchema(OperationOfDecl(d1)).schema
                = getSuccessfulResponseSchema(OperationOfDecl(d2)).schema)
             => d1.body = d2.body

\* module pet compiled GET /pets (an array of Tag) and then GET /pets/{id}
\* (a Pet); module store compiled only the latter; both units are written
C23_Witness ==
    /\ phase = "done"
    /\ doc \in OrderDocs
    /\ getSuccessfulResponseSchema(doc[1].op).schema = Arr(Ref("Tag"))
    /\ getSuccessfulResponseSchema(doc[2].op).schema = Ref("Pet")
    /\ ~Matched(doc[1].op, StoreModule)
    /\ \A f \in {ModuleFile(PetModule), ModuleFile(StoreModule)} :
          /\ f \in DOMAIN typesFiles
          /\ \E i, j \in 1..Len(typesFiles[f].declarations) :
                /\ IsCollected(typesFiles[f].declarations[i])
                /\ typesFiles[f].declarations[i].name = "Pet"
                /\ typesFiles[f].declarations[j].docc.role = "response"
                /\ OperationOfDecl(typesFiles[f].declarations[j]) = doc[2].op
                /\ typesFiles[f].declarations[j].body[1] = "props"

(***************************************************************************)
(* Claims on the shape of the Request declaration.                         *)
(***************************************************************************)
\* the JSON body schema of an operation with every $ref followed
ResolvedJsonBody(op) ==
    resolveSchema(IF op.hasBody
                    THEN MediaSchema(op.content, "application/json")
                    ELSE NoSchema,
                  schemas, {})

\* primitive, array, or object without declared properties
NotObjectShaped(s) ==
    s # NoSchema /\ ~IsRef(s) /\ shouldUseTypeInsteadOfInterface(s)

\* the operation offers no form body beside its JSON body
JsonOnly(op) ==
    /\ ~HasMedia(op.content, "multipart/form-data")
    /\ ~HasMedia(op.content, "application/x-www-form-urlencoded")

\* C24: the written Request declaration of an operation (whose body, if any,
\* is JSON only) is a type alias exactly when its resolved JSON body schema
\* is not object-shaped and the operation has no parameters; otherwise, a body
\* that is a $ref to an object-shaped schema included, it is an interface.
C24_AliasExactlyForPlainBodyWithoutParameters ==
    \A d \in RequestDeclarations :
       JsonOnly(OperationOfDecl(d)) =>
          ((d.kind = "type") <=>
              /\ NotObjectShaped(ResolvedJsonBody(OperationOfDecl(d)))
              /\ Len(OperationOfDecl(d).parameters) = 0)

(***************************************************************************)
(* Claims on the names a type unit refers to.                              *)
(***************************************************************************)
\* the bare type names a rendered text mentions
RECURSIVE TextNames(_)
TextNames(t) ==
    IF t[1] = "name" THEN { t[2] }
    ELSE IF t[1] \in {"arr", "braces", "arrayOf"} THEN TextNames(t[2])
    ELSE IF t[1] = "props"
      THEN UNION { TextNames(t[2][i].type) : i \in 1..Len(t[2]) }
    ELSE {}

\* C25: in a written type unit, every registry schema whose name appears as a
\* bare type reference (in a Request alias, a parameter's array item type, a
\* property type or an array element type) is declared by an `interface` of
\* that name in the same unit.
C25_UnitSelfContained ==
    \A f \in DOMAIN typesFiles :
       \A i \in 1..Len(typesFiles[f].declarations) :
          \A n \in TextNames(typesFiles[f].declarations[i].body) \cap DOMAIN schemas :
             InterfacesNamed(typesFiles[f], n) # {}

(***************************************************************************)
(* Claims on the fetches and writes of one run.                            *)
(***************************************************************************)
Fetches == { i \in 1..Len(events) : events[i][1] = "fetch" }

FileWrites == { i \in 1..Len(events) : events[i][1] = "write" }

\* C26: in one run the source document is fetched once, and no fetch of it
\* happens after the first output file has been written.
C26_FetchedOnceBeforeAnyWrite ==
    /\ Cardinality(Fetches) <= 1
    /\ \A i \in FileWrites : \A j \in Fetches : j < i

(***************************************************************************)
(* Claims on the concurrency of batchTranslate.                            *)
(***************************************************************************)
InFlight == { i \in 1..Len(modules) : calls[i] = Awaiting }

\* the batch module i belongs to, counted from 0
BatchIndex(i) == (i - 1) \div BatchSize

\* what the callback of module i made of its own label and its own outcome
OwnName(i) ==
    TranslatedName[modules[i].name,
                   IF calls[i] = Plainly THEN NoCredentials ELSE calls[i]]

\* a step changes the englishName of a module only when that module's own
\* callback moves, and never its label
OnlyOwnModuleWritten ==
    \A i \in 1..Len(modules) :
       /\ Len(modules') = Len(modules)
       /\ modules'[i].name = modules[i].name
       /\ modules'[i].englishName # modules[i].englishName => calls'[i] # calls[i]

\* C27: batchTranslate keeps at most BatchSize translation calls in flight;
\* no call of a later batch has started while a call of an earlier batch is
\* unsettled; each call writes only the englishName of its own module, so the
\* final name of every module is the one its own call produced, whatever the
\* order in which the calls completed.
C27_BoundedBatchesOwnWrites ==
    /\ [](Cardinality(InFlight) <= BatchSize)
    /\ [](\A i, j \in 1..Len(modules) :
            (BatchIndex(i) < BatchIndex(j) /\ calls[j] # Idling) => Settled(i))
    /\ [][OnlyOwnModuleWritten]_vars
    /\ [](Translated =>
            \A i \in 1..Len(modules) : modules[i].englishName = OwnName(i))

\* the second batch is in flight after a first batch in which the
\* later module settled with an answer and the earlier one with a failure
C27_Witness ==
    /\ phase = "translate"
    /\ Len(modules) > BatchSize
    /\ batchAt = 1 + BatchSize
    /\ InFlight = BatchOf(batchAt)
    /\ InFlight # {}
    /\ calls[1] = Rejects
    /\ calls[BatchSize][1] = "ok"

(***************************************************************************)
(* Claims on the termination of the traversals.                            *)
(***************************************************************************)
RFrames == { j \in 1..Len(stack) : stack[j].fn = "R" }

\* C28: over every registry, mutual $ref cycles, cycles through array items
\* and cycles of alias schemas included, a started render
\* (handleRecursiveType / generateTypeProps), a started collectReferencedTypes
\* and a started resolveSchema each reach their result; resolveSchema never
\* nests deeper than one activation for each schema of the registry.
C28_TraversalsTerminate ==
    /\ (phase = "render") ~> (phase = "done")
    /\ (phase = "collect") ~> (phase = "request" /\ todo = <<>>)
    /\ (phase = "resolve") ~> (phase = "resolved")
    /\ [](Cardinality(RFrames) <= Cardinality(DOMAIN schemas) + 1)
    /\ [](phase = "resolved" => result = resolveSchema(root.schema, schemas, {}))

\* a finished traversal of a cyclic registry: resolveSchema over the aliases
\* A -> B -> A, collectReferencedTypes over the cycle A -> B -> C -> A that
\* passes through a property, array items and an alias, and a render over a
\* cycle of three arrays
C28_Witness ==
    /\ ~IsChain
    /\ root = RootG(Ref("A"))
    /\ \/ /\ phase = "resolved"
          /\ schemas["A"] = Ref("B")
          /\ schemas["B"] = Ref("A")
          /\ result = Ref("A")
       \/ /\ phase = "request"
          /\ schemas["A"] = Hop("prop", "B")
          /\ schemas["B"] = Hop("propItems", "C")
          /\ schemas["C"] = Ref("A")
          /\ processedTypes = {"A", "B", "C"}
          /\ Len(typeDefinitions) = 3
       \/ /\ phase = "done"
          /\ schemas["A"] = Hop("items", "B")
          /\ schemas["B"] = Hop("items", "C")
          /\ schemas["C"] = Hop("items", "A")
          /\ result = <<"arr", <<"name", "B">>>>

(***************************************************************************)
(* Claims on the agreement of the type unit and the client unit.           *)
(***************************************************************************)
\* the properties of `params` a client function reads the body from
BodyPropertiesRead(block) ==
    IF block.arg = <<"params?.body">> THEN {"body"} ELSE {}

\* the field names a declaration of the type unit declares
FieldNames(d) ==
    IF d.body[1] = "props"
      THEN { d.body[2][i].name : i \in 1..Len(d.body[2]) } ELSE {}

\* the Request declarations written for the operation of a client function
RequestDeclarationsOf(block) ==
    { d \in RequestDeclarations :
        d.docc.path = block.path /\ d.docc.method = block.httpMethod }

\* C29: for a written POST/PUT/PATCH function of an operation with at least
\* one parameter and a JSON body that is not object-shaped, the property of
\* `params` the function reads the body from is a field the operation's
\* Request interface declares.
C29_ClientReadsDeclaredBodyField ==
    \A b \in ClientFunctions :
       (/\ Writes(b)
        /\ Len(OperationOf(b).parameters) >= 1
        /\ NotObjectShaped(ResolvedJsonBody(OperationOf(b))))
       => \A d \in RequestDeclarationsOf(b) :
             BodyPropertiesRead(b) \subseteq FieldNames(d)

(***************************************************************************)
(* Claims on the output files of the modules of one run.                   *)
(***************************************************************************)
\* C30: when batchTranslate has resolved, two modules with distinct tag
\* labels have distinct output file names formatModuleName(englishName),
\* also when translation is unavailable or fails.
C30_DistinctLabelsDistinctFiles ==
    Translated =>
       \A i, j \in 1..Len(modules) :
          modules[i].name # modules[j].name =>
             ModuleFile(modules[i]) # ModuleFile(modules[j])
====
